---- MODULE Spec2Model ----
(***************************************************************************)
(* Job digest pipeline: DigestProcessor.parse / validate and               *)
(* IssueFormatter.format (src/src/services/digest-processor.ts,            *)
(* src/src/services/issue-formatter.ts).                                   *)
(*                                                                         *)
(* Conventions of the model                                                *)
(*  - A JavaScript value is a tagged record [t |-> tag, v |-> payload].    *)
(*    Objects are functions from property names to values; a property     *)
(*    that is absent is simply not in the domain, and reading it gives    *)
(*    Undef, as in JavaScript.                                             *)
(*  - A JavaScript number is fixed point with two decimals: JNum(n)       *)
(*    denotes n / 100, so 0.95 is JNum(95) and 3 is JNum(300).            *)
(*  - The raw digest text is a sequence of JSON tokens.  JSONstringify    *)
(*    writes a value as tokens and JSONparse reads tokens by recursive    *)
(*    descent, failing with a SyntaxError on malformed text.              *)
(*  - Emoji of the source's string literals are written as their GitHub   *)
(*    shortcodes (":dart:" and so on).                                     *)
(***************************************************************************)
EXTENDS Integers, Sequences, FiniteSets, TLC

VARIABLES
  source,        \* what the producer wrote: a value it serialized, or malformed text
  digestJson,    \* the raw text handed to parse (a token sequence)
  pc,            \* where the createDigestIssue call stands: "start", "parsed",
                 \* "rejected", "formatted", "formatThrew", "awaiting", "created",
                 \* "failed"; "formatter" when format is called directly
  digest,        \* the object parse returned (the live heap object), or Undef
  parseError,    \* message of the Error parse threw, or NoError
  sortedJobs,    \* formatJobListingsSection's local sortedJobs, in rendered order
  issueContent,  \* the {title, body} format returned, or NoContent
  formatError,   \* message of the Error format threw, or NoError
  wallClock,     \* the wall clock as format read it, 0 before
  logs,          \* what the injected logger was told, in order: [level, message]
  apiCalls,      \* the parameters of each githubClient.createIssue call, in order
  caught,        \* the value the catch block of createDigestIssue caught, or NothingCaught
  result,        \* the promise createDigestIssue returned: pending, fulfilled, rejected
  validation,    \* what the latest validateDigest call on the text returned, or NotCalled
  formatCalls,   \* every call of format on the digest object: [clock, err, content]
  calls,         \* the createDigestIssue calls started on one service without waiting
                 \* for one another, in the order they were started: the locals of
                 \* each ([text, pc, digest, request, result])
  cli            \* the local CLI process: where main stands, its environment and
                 \* arguments, its exit code, the createDigestIssue calls it made

vars == <<source, digestJson, pc, digest, parseError, sortedJobs, issueContent, formatError,
          wallClock, logs, apiCalls, caught, result, validation, formatCalls, calls, cli>>

---------------------------------------------------------------------------
(* Bounds *)

MaxJobs == 3
MaxCalls == 2

\* calls of format on one digest object
MaxFormatCalls == 3

---------------------------------------------------------------------------
(* JavaScript values *)

Undef == [t |-> "undefined"]
JNull == [t |-> "null"]
JBool(b) == [t |-> "bool", v |-> b]
JNum(n) == [t |-> "num", v |-> n]
JStr(s) == [t |-> "str", v |-> s]
JArr(s) == [t |-> "arr", v |-> s]
JObj(f) == [t |-> "obj", v |-> f]

\* a whole number as a fixed-point JavaScript number
Whole(i) == JNum(i * 100)

NoError == ""

TypeOf(x) ==
  CASE x.t = "undefined" -> "undefined"
    [] x.t = "null" -> "object"
    [] x.t = "bool" -> "boolean"
    [] x.t = "num" -> "number"
    [] x.t = "str" -> "string"
    [] OTHER -> "object"

\* ToBoolean
Truthy(x) ==
  CASE x.t = "undefined" -> FALSE
    [] x.t = "null" -> FALSE
    [] x.t = "bool" -> x.v
    [] x.t = "num" -> x.v # 0
    [] x.t = "str" -> x.v # ""
    [] OTHER -> TRUE

IsArray(x) == x.t = "arr"

\* reading a property of null or undefined throws a TypeError
CanRead(x) == x.t \notin {"null", "undefined"}

TypeErrorMsg(x, key) ==
  "Cannot read properties of " \o x.t \o " (reading '" \o key \o "')"

\* x.key for a value whose properties can be read
Get(x, key) ==
  IF x.t = "obj" /\ key \in DOMAIN x.v THEN x.v[key] ELSE Undef

Has(x, key) == x.t = "obj" /\ key \in DOMAIN x.v

\* obj with property key set to val
With(x, key, val) ==
  JObj([k \in DOMAIN x.v \cup {key} |-> IF k = key THEN val ELSE x.v[k]])

\* obj without property key
Without(x, key) == JObj([k \in DOMAIN x.v \ {key} |-> x.v[k]])

\* an object from a record, leaving out the properties given as Undef
ObjOf(f) == JObj([k \in {j \in DOMAIN f : f[j] # Undef} |-> f[k]])

---------------------------------------------------------------------------
(* JSON text *)

LBrace == [k |-> "{"]
RBrace == [k |-> "}"]
LBrack == [k |-> "["]
RBrack == [k |-> "]"]
Comma == [k |-> ","]
Colon == [k |-> ":"]
Scalar(x) == [k |-> "scalar", v |-> x]

\* the order in which JSONstringify writes the properties of an object
KeyOrder ==
  << "query", "keywords", "summary", "total_jobs_found", "new_jobs",
     "updated_jobs", "duplicates_removed", "processing_time_seconds",
     "sources_queried", "jobs", "id", "title", "company", "location",
     "salary", "description", "requirements", "url", "source",
     "posted_date", "job_type", "experience_level", "remote_option",
     "match_score", "match_reasons", "metadata", "generated_at", "version",
     "errors", "warnings" >>

RECURSIVE JSONstringify(_)
RECURSIVE StringifyElements(_, _)
RECURSIVE StringifyMembers(_, _, _)

StringifyElements(s, i) ==
  IF i > Len(s) THEN << >>
  ELSE (IF i > 1 THEN <<Comma>> ELSE << >>)
       \o JSONstringify(s[i]) \o StringifyElements(s, i + 1)

StringifyMembers(f, keys, first) ==
  IF keys = << >> THEN << >>
  ELSE (IF first THEN << >> ELSE <<Comma>>)
       \o <<Scalar(JStr(Head(keys))), Colon>>
       \o JSONstringify(f[Head(keys)])
       \o StringifyMembers(f, Tail(keys), FALSE)

JSONstringify(x) ==
  CASE x.t = "arr" -> <<LBrack>> \o StringifyElements(x.v, 1) \o <<RBrack>>
    [] x.t = "obj" ->
         <<LBrace>>
         \o StringifyMembers(x.v, SelectSeq(KeyOrder, LAMBDA k : k \in DOMAIN x.v), TRUE)
         \o <<RBrace>>
    [] OTHER -> <<Scalar(x)>>

SyntaxErrorMsg == "Unexpected token in JSON"
EndOfInputMsg == "Unexpected end of JSON input"

ParseFail(msg) == [ok |-> FALSE, val |-> Undef, next |-> 0, msg |-> msg]
ParseOk(x, next) == [ok |-> TRUE, val |-> x, next |-> next, msg |-> NoError]

RECURSIVE ParseValue(_, _)
RECURSIVE ParseElements(_, _, _)
RECURSIVE ParseMembers(_, _, _)

ParseElements(toks, i, acc) ==
  LET r == ParseValue(toks, i) IN
  IF ~r.ok THEN r
  ELSE IF r.next > Len(toks) THEN ParseFail(EndOfInputMsg)
  ELSE IF toks[r.next] = Comma THEN ParseElements(toks, r.next + 1, Append(acc, r.val))
  ELSE IF toks[r.next] = RBrack THEN ParseOk(JArr(Append(acc, r.val)), r.next + 1)
  ELSE ParseFail(SyntaxErrorMsg)

ParseMembers(toks, i, acc) ==
  IF i + 1 > Len(toks) THEN ParseFail(EndOfInputMsg)
  ELSE IF ~(toks[i].k = "scalar" /\ toks[i].v.t = "str" /\ toks[i + 1] = Colon)
    THEN ParseFail(SyntaxErrorMsg)
  ELSE
    LET key == toks[i].v.v
        r == ParseValue(toks, i + 2)
    IN
    IF ~r.ok THEN r
    ELSE IF r.next > Len(toks) THEN ParseFail(EndOfInputMsg)
    ELSE IF toks[r.next] = Comma
      THEN ParseMembers(toks, r.next + 1, With(acc, key, r.val))
    ELSE IF toks[r.next] = RBrace
      THEN ParseOk(With(acc, key, r.val), r.next + 1)
    ELSE ParseFail(SyntaxErrorMsg)

ParseValue(toks, i) ==
  IF i > Len(toks) THEN ParseFail(EndOfInputMsg)
  ELSE
    CASE toks[i].k = "scalar" -> ParseOk(toks[i].v, i + 1)
      [] toks[i] = LBrack ->
           IF i + 1 <= Len(toks) /\ toks[i + 1] = RBrack
             THEN ParseOk(JArr(<< >>), i + 2)
             ELSE ParseElements(toks, i + 1, << >>)
      [] toks[i] = LBrace ->
           IF i + 1 <= Len(toks) /\ toks[i + 1] = RBrace
             THEN ParseOk(JObj(<< >>), i + 2)
             ELSE ParseMembers(toks, i + 1, JObj(<< >>))
      [] OTHER -> ParseFail(SyntaxErrorMsg)

\* JSON.parse: the whole text must be one value
JSONparse(toks) ==
  LET r == ParseValue(toks, 1) IN
  IF ~r.ok THEN r
  ELSE IF r.next # Len(toks) + 1 THEN ParseFail(SyntaxErrorMsg)
  ELSE r

---------------------------------------------------------------------------
(* DigestProcessor *)

RequiredJobFields ==
  << "id", "title", "company", "url", "description", "source", "posted_date" >>

JobContext(i) == "Job at index " \o ToString(i)

\* one required-field check of the loop body: if (!job.f || typeof job.f !== "string")
FieldInvalid(job, f) == ~Truthy(Get(job, f)) \/ TypeOf(Get(job, f)) # "string"

\* the optional numeric check with the upper bound taken as exclusive
ScoreInvalid_exclusiveUpper(job) ==
  LET s == Get(job, "match_score") IN
  s # Undef /\ (TypeOf(s) # "number" \/ s.v < 0 \/ s.v >= 100)

\* the optional numeric check: match_score !== undefined && (typeof !== "number" || < 0 || > 1)
ScoreInvalid(job) ==
  LET s == Get(job, "match_score") IN
  s # Undef /\ (TypeOf(s) # "number" \/ s.v < 0 \/ s.v > 100)

RECURSIVE validateFields(_, _, _)
validateFields(job, i, fields) ==
  IF fields = << >> THEN NoError
  ELSE IF FieldInvalid(job, Head(fields))
    THEN JobContext(i) \o ": missing or invalid " \o Head(fields) \o " field"
  ELSE validateFields(job, i, Tail(fields))

\* the body of the for loop of validate for the element at 0-based index i:
\* the message of the Error it throws, or NoError
validateJob(job, i) ==
  IF ~CanRead(job) THEN TypeErrorMsg(job, "id")
  ELSE LET e == validateFields(job, i, RequiredJobFields) IN
       IF e # NoError THEN e
       ELSE IF ScoreInvalid(job)
         THEN JobContext(i) \o ": match_score must be a number between 0 and 1"
       ELSE NoError

\* a loop that looks at the first element only
validateJobs_firstOnly(jobs, n) ==
  IF Len(jobs) = 0 \/ n > 1 THEN NoError ELSE validateJob(jobs[1], 0)

\* for (let i = 0; i < data.jobs.length; i++): stops at the first throw
RECURSIVE validateJobs(_, _)
validateJobs(jobs, n) ==
  IF n > Len(jobs) THEN NoError
  ELSE LET e == validateJob(jobs[n], n - 1) IN
       IF e # NoError THEN e ELSE validateJobs(jobs, n + 1)

\* DigestProcessor.validate: the message of the Error thrown, or NoError
validate(data) ==
  IF ~CanRead(data) THEN TypeErrorMsg(data, "summary")
  ELSE
  LET summary == Get(data, "summary")
      jobs == Get(data, "jobs")
      metadata == Get(data, "metadata")
  IN
  IF ~Truthy(summary) \/ TypeOf(summary) # "object"
    THEN "Missing or invalid summary object"
  ELSE IF TypeOf(Get(summary, "total_jobs_found")) # "number"
    THEN "Missing or invalid total_jobs_found in summary"
  ELSE IF TypeOf(Get(summary, "new_jobs")) # "number"
    THEN "Missing or invalid new_jobs in summary"
  ELSE IF ~IsArray(Get(summary, "sources_queried"))
    THEN "Missing or invalid sources_queried array in summary"
  ELSE IF ~IsArray(jobs)
    THEN "Jobs data must be an array"
  ELSE IF validateJobs(jobs.v, 1) # NoError
    THEN validateJobs(jobs.v, 1)
  ELSE IF ~Truthy(metadata) \/ TypeOf(metadata) # "object"
    THEN "Missing or invalid metadata object"
  ELSE IF ~Truthy(Get(metadata, "generated_at"))
          \/ TypeOf(Get(metadata, "generated_at")) # "string"
    THEN "Missing or invalid generated_at in metadata"
  ELSE NoError

Threw(msg) == [threw |-> TRUE, message |-> msg, value |-> Undef]
Returned(x) == [threw |-> FALSE, message |-> NoError, value |-> x]

\* a parse that gives every listing without match_score the score 0
parse_defaultScore(jsonData) ==
  LET r == JSONparse(jsonData) IN
  IF ~r.ok THEN Threw("Invalid digest data: " \o r.msg)
  ELSE IF validate(r.val) # NoError
    THEN Threw("Invalid digest data: " \o validate(r.val))
  ELSE Returned(With(r.val, "jobs",
         JArr([n \in DOMAIN Get(r.val, "jobs").v |->
                 IF Has(Get(r.val, "jobs").v[n], "match_score")
                   THEN Get(r.val, "jobs").v[n]
                   ELSE With(Get(r.val, "jobs").v[n], "match_score", JNum(0))])))

\* DigestProcessor.parse: JSON.parse, validate, return the decoded value;
\* every error is rethrown as Error("Invalid digest data: " + message)
parse(jsonData) ==
  LET r == JSONparse(jsonData) IN
  IF ~r.ok THEN Threw("Invalid digest data: " \o r.msg)
  ELSE IF validate(r.val) # NoError
    THEN Threw("Invalid digest data: " \o validate(r.val))
  ELSE Returned(r.val)

---------------------------------------------------------------------------
(* JavaScript strings, numbers and dates as the formatter uses them *)

Digits2(n) == (IF n < 10 THEN "0" ELSE "") \o ToString(n)

\* String(number) of a fixed-point number: 300 is "3", 250 is "2.5", 5 is "0.05"
NumToString(n) ==
  LET a == IF n < 0 THEN -n ELSE n IN
  (IF n < 0 THEN "-" ELSE "") \o ToString(a \div 100)
  \o (IF a % 100 = 0 THEN ""
      ELSE IF a % 10 = 0 THEN "." \o ToString((a % 100) \div 10)
      ELSE "." \o Digits2(a % 100))

\* number.toFixed(2)
ToFixed2(n) ==
  LET a == IF n < 0 THEN -n ELSE n IN
  (IF n < 0 THEN "-" ELSE "") \o ToString(a \div 100) \o "." \o Digits2(a % 100)

RECURSIVE Str(_)
RECURSIVE JoinFrom(_, _, _)

\* Array.prototype.join: null and undefined elements are written as ""
JoinFrom(s, i, sep) ==
  IF i > Len(s) THEN ""
  ELSE (IF i > 1 THEN sep ELSE "")
       \o (IF CanRead(s[i]) THEN Str(s[i]) ELSE "")
       \o JoinFrom(s, i + 1, sep)

\* the string a template literal writes for a value
Str(x) ==
  CASE x.t = "str" -> x.v
    [] x.t = "num" -> NumToString(x.v)
    [] x.t = "bool" -> IF x.v THEN "true" ELSE "false"
    [] x.t = "arr" -> JoinFrom(x.v, 1, ",")
    [] x.t = "obj" -> "[object Object]"
    [] OTHER -> x.t

\* x > 0 for the values the summary can hold
GreaterThanZero(x) ==
  CASE x.t = "num" -> x.v > 0
    [] x.t = "bool" -> x.v
    [] OTHER -> FALSE

\* Date.getTime() is in milliseconds since 2025-07-20T00:00:00Z; NaN for a
\* string the date parser does not understand
Hour == 1000 * 60 * 60
DayMs == 1000 * 60 * 60 * 24
Time(ms) == [nan |-> FALSE, ms |-> ms]
NaNTime == [nan |-> TRUE, ms |-> 0]

\* new Date(dateString): the time value, and the en-US renderings of the day
DateTable ==
  [ s \in { "2025-07-22T12:00:00Z", "2025-07-29T08:00:00Z", "2025-07-30T10:00:00Z",
            "2025-07-31T09:00:00Z", "2025-08-02T10:00:00Z" } |->
    CASE s = "2025-07-22T12:00:00Z" ->
           [time |-> Time(2 * DayMs + 12 * Hour), short |-> "Jul 22, 2025",
            long |-> "Tuesday, July 22, 2025 at 12:00 PM"]
      [] s = "2025-07-29T08:00:00Z" ->
           [time |-> Time(9 * DayMs + 8 * Hour), short |-> "Jul 29, 2025",
            long |-> "Tuesday, July 29, 2025 at 08:00 AM"]
      [] s = "2025-07-30T10:00:00Z" ->
           [time |-> Time(10 * DayMs + 10 * Hour), short |-> "Jul 30, 2025",
            long |-> "Wednesday, July 30, 2025 at 10:00 AM"]
      [] s = "2025-07-31T09:00:00Z" ->
           [time |-> Time(11 * DayMs + 9 * Hour), short |-> "Jul 31, 2025",
            long |-> "Thursday, July 31, 2025 at 09:00 AM"]
      [] s = "2025-08-02T10:00:00Z" ->
           [time |-> Time(13 * DayMs + 10 * Hour), short |-> "Aug 2, 2025",
            long |-> "Saturday, August 2, 2025 at 10:00 AM"] ]

InvalidDate == [time |-> NaNTime, short |-> "Invalid Date", long |-> "Invalid Date"]

NewDate(x) ==
  IF x.t = "str" /\ x.v \in DOMAIN DateTable THEN DateTable[x.v] ELSE InvalidDate

\* the instants at which the wall clock is read: 2025-07-31T10:30Z, 2025-08-05T18:00Z
Clock == { 11 * DayMs + 10 * Hour + 30 * 60 * 1000, 16 * DayMs + 18 * Hour }

\* encodeURIComponent on the characters the digests of the model use
EncodeChar(c) ==
  CASE c = " " -> "%20"
    [] c = "," -> "%2C"
    [] c = "/" -> "%2F"
    [] c = ":" -> "%3A"
    [] c = "&" -> "%26"
    [] c = "+" -> "%2B"
    [] OTHER -> c

RECURSIVE encodeURIComponent(_)
encodeURIComponent(s) ==
  IF s = "" THEN ""
  ELSE EncodeChar(SubSeq(s, 1, 1)) \o encodeURIComponent(SubSeq(s, 2, Len(s)))

\* String.prototype.lastIndexOf(" ") among the first n characters, as a
\* 0-based index, -1 when there is none
LastSpaceBefore(s, n) ==
  LET spaces == {i \in 1..n : SubSeq(s, i, i) = " "} IN
  IF spaces = {} THEN -1
  ELSE (CHOOSE i \in spaces : \A j \in spaces : j <= i) - 1

lastIndexOfSpace(s) == LastSpaceBefore(s, Len(s))

---------------------------------------------------------------------------
(* IssueFormatter.  A text is built as the sequence of the pieces the code *)
(* appends, in order; a helper gives [err, out]: the message of the Error  *)
(* it throws (NoError when it returns) and the pieces.                     *)

Pieces(out) == [err |-> NoError, out |-> out]
Throws(msg) == [err |-> msg, out |-> << >>]

\* r, then the pieces of q unless r threw
Then(r, q) == IF r.err # NoError THEN r ELSE [err |-> q.err, out |-> r.out \o q.out]

formatTitle(totalJobs, newJobs) ==
  IF totalJobs = Whole(0) THEN ":mailbox_with_no_mail: No New Job Opportunities Today"
  ELSE IF totalJobs = Whole(1) THEN ":dart: 1 New Job Opportunity"
  ELSE ":dart: " \o Str(totalJobs) \o " Job Opportunities"
       \o (IF GreaterThanZero(newJobs) THEN " (" \o Str(newJobs) \o " new)" ELSE "")

\* summary.processing_time_seconds.toFixed(2)
ProcessingTime(summary) ==
  LET x == Get(summary, "processing_time_seconds") IN
  IF ~CanRead(x) THEN Throws(TypeErrorMsg(x, "toFixed"))
  ELSE IF x.t # "num"
    THEN Throws("summary.processing_time_seconds.toFixed is not a function")
  ELSE Pieces(<<"\n- **Processing Time:** " \o ToFixed2(x.v) \o "s">>)

\* a summary section that shows the duplicates line for every number, 0 too
formatSummarySection_duplicatesAlways(summary) ==
  Then(Pieces(
         << "## :bar_chart: Summary\n\n",
            "- **Total Jobs:** " \o Str(Get(summary, "total_jobs_found")) >>
         \o (IF GreaterThanZero(Get(summary, "new_jobs"))
               THEN <<" (" \o Str(Get(summary, "new_jobs")) \o " new since last run)">>
               ELSE << >>)
         \o <<"\n- **Sources:** " \o JoinFrom(Get(summary, "sources_queried").v, 1, ", ")>>),
  Then(ProcessingTime(summary),
       Pieces(
         (IF Get(summary, "duplicates_removed").t = "num"
            THEN <<"\n- **Duplicates Removed:** " \o Str(Get(summary, "duplicates_removed"))>>
            ELSE << >>)
         \o <<"\n\n">>)))

formatSummarySection(summary) ==
  Then(Pieces(
         << "## :bar_chart: Summary\n\n",
            "- **Total Jobs:** " \o Str(Get(summary, "total_jobs_found")) >>
         \o (IF GreaterThanZero(Get(summary, "new_jobs"))
               THEN <<" (" \o Str(Get(summary, "new_jobs")) \o " new since last run)">>
               ELSE << >>)
         \o <<"\n- **Sources:** " \o JoinFrom(Get(summary, "sources_queried").v, 1, ", ")>>),
  Then(ProcessingTime(summary),
       Pieces(
         (IF GreaterThanZero(Get(summary, "duplicates_removed"))
            THEN <<"\n- **Duplicates Removed:** " \o Str(Get(summary, "duplicates_removed"))>>
            ELSE << >>)
         \o <<"\n\n">>)))

NoJobsFoundHeading == "## :mag: No Jobs Found\n\n"

formatEmptyResultsSection ==
  << NoJobsFoundHeading,
     "No jobs matched your current search criteria today. Consider:\n\n",
     "- :arrows_counterclockwise: **Broadening search keywords** - try related terms or technologies\n",
     "- :round_pushpin: **Expanding location preferences** - include remote or nearby cities\n",
     "- :moneybag: **Adjusting salary expectations** - consider a wider range\n",
     "- :date: **Checking search date range** - extend to include older postings\n\n",
     "The system will continue monitoring and notify you when new opportunities are found.\n\n" >>

\* a truncation that always cuts at maxLength
truncateString_hardCut(text, maxLength) ==
  IF Len(text) <= maxLength THEN text ELSE SubSeq(text, 1, maxLength) \o "..."

\* truncateDescription for a string
truncateString(text, maxLength) ==
  IF Len(text) <= maxLength THEN text
  ELSE LET truncated == SubSeq(text, 1, maxLength)
           lastSpaceIndex == lastIndexOfSpace(truncated)
       IN IF 10 * lastSpaceIndex > 8 * maxLength
            THEN SubSeq(truncated, 1, lastSpaceIndex) \o "..."
            ELSE truncated \o "..."

\* truncateDescription(text, maxLength); a value that is not a string has no
\* substring method, and an array of at most maxLength elements is returned as is
truncateDescription(text, maxLength) ==
  IF text.t = "str" THEN Pieces(<<truncateString(text.v, maxLength)>>)
  ELSE IF text.t = "arr" /\ Len(text.v) <= maxLength THEN Pieces(<<Str(text)>>)
  ELSE Throws("text.substring is not a function")

\* a formatDate for which seven days ago is still a relative date
formatDate_weekInclusive(dateString, now) ==
  LET date == NewDate(dateString)
      diffInDays == (now - date.time.ms) \div DayMs
  IN IF date.time.nan THEN date.short
     ELSE IF diffInDays = 0 THEN "Today"
     ELSE IF diffInDays = 1 THEN "Yesterday"
     ELSE IF diffInDays <= 7 THEN ToString(diffInDays) \o " days ago"
     ELSE date.short

\* formatDate(dateString) with the wall clock reading now
formatDate(dateString, now) ==
  LET date == NewDate(dateString)
      diffInDays == (now - date.time.ms) \div DayMs
  IN IF date.time.nan THEN date.short
     ELSE IF diffInDays = 0 THEN "Today"
     ELSE IF diffInDays = 1 THEN "Yesterday"
     ELSE IF diffInDays < 7 THEN ToString(diffInDays) \o " days ago"
     ELSE date.short

formatActionButtons(job) ==
  LET companySearchQuery ==
        encodeURIComponent(Str(Get(job, "company")) \o " company review salary culture")
      roleSearchQuery ==
        encodeURIComponent(Str(Get(job, "title")) \o " " \o Str(Get(job, "company"))
                             \o " interview questions")
  IN << "**:rocket: Actions:**\n",
        "- [**Apply Now**](" \o Str(Get(job, "url")) \o ") :memo:\n",
        "- [Research Company](https://www.google.com/search?q=" \o companySearchQuery \o ") :mag:\n",
        "- [Interview Prep](https://www.google.com/search?q=" \o roleSearchQuery \o ") :dart:\n" >>

Badge(job, key, icon) ==
  IF Truthy(Get(job, key)) THEN <<icon \o " " \o Str(Get(job, key))>> ELSE << >>

\* a metadata array that shows the match badge for every numeric score
Badges_scoreAlways(job) ==
  Badge(job, "location", ":round_pushpin:")
  \o Badge(job, "salary", ":moneybag:")
  \o Badge(job, "job_type", ":alarm_clock:")
  \o Badge(job, "experience_level", ":man_office_worker:")
  \o (IF Truthy(Get(job, "remote_option")) THEN <<":house: Remote Available">> ELSE << >>)
  \o (IF Get(job, "match_score").t = "num"
        THEN <<":dart: " \o ToString(Get(job, "match_score").v) \o "% match">>
        ELSE << >>)

\* the metadata array of formatJobListing
Badges(job) ==
  Badge(job, "location", ":round_pushpin:")
  \o Badge(job, "salary", ":moneybag:")
  \o Badge(job, "job_type", ":alarm_clock:")
  \o Badge(job, "experience_level", ":man_office_worker:")
  \o (IF Truthy(Get(job, "remote_option")) THEN <<":house: Remote Available">> ELSE << >>)
  \o (IF Truthy(Get(job, "match_score"))
        THEN <<":dart: " \o ToString(Get(job, "match_score").v) \o "% match">>
        ELSE << >>)

RECURSIVE JoinStrings(_, _)
JoinStrings(s, sep) ==
  IF s = << >> THEN ""
  ELSE IF Len(s) = 1 THEN s[1]
  ELSE s[1] \o sep \o JoinStrings(Tail(s), sep)

ListingHeading(job, index) ==
  "### " \o ToString(index) \o ". " \o Str(Get(job, "title"))
    \o " at **" \o Str(Get(job, "company")) \o "**\n\n"

\* the match reasons line: job.match_reasons && job.match_reasons.length > 0
MatchReasons(job) ==
  LET r == Get(job, "match_reasons") IN
  IF r.t = "arr" /\ Len(r.v) > 0
    THEN Pieces(<<"**:sparkles: Why this matches:** " \o JoinFrom(r.v, 1, ", ") \o "\n\n">>)
  ELSE IF r.t = "str" /\ Len(r.v) > 0
    THEN Throws("job.match_reasons.join is not a function")
  ELSE Pieces(<< >>)

\* the single piece pre + text + post, unless producing the text threw
Wrapped(pre, r, post) ==
  IF r.err # NoError THEN r ELSE Pieces(<<pre \o r.out[1] \o post>>)

formatJobListing(job, index, now) ==
  Then(Pieces(
         <<ListingHeading(job, index)>>
         \o (IF Len(Badges(job)) > 0
               THEN <<JoinStrings(Badges(job), " &bull; ") \o "\n\n">>
               ELSE << >>)),
  Then(Wrapped("", truncateDescription(Get(job, "description"), 300), "\n\n"),
  Then(IF Truthy(Get(job, "requirements"))
         THEN Wrapped("**Requirements:** ",
                      truncateDescription(Get(job, "requirements"), 200), "\n\n")
         ELSE Pieces(<< >>),
  Then(MatchReasons(job),
       Pieces(<<"**Posted:** " \o formatDate(Get(job, "posted_date"), now) \o "\n\n">>
              \o formatActionButtons(job))))))

\* a.match_score || 0
Score(job) ==
  IF Truthy(Get(job, "match_score")) THEN Get(job, "match_score").v ELSE 0

PostedTime(job) == NewDate(Get(job, "posted_date")).time

\* a comparator that breaks ties by the older date first
compareJobs_oldestFirst(a, b) ==
  IF Score(a) # Score(b) THEN [nan |-> FALSE, v |-> Score(b) - Score(a)]
  ELSE IF PostedTime(a).nan \/ PostedTime(b).nan THEN [nan |-> TRUE, v |-> 0]
  ELSE [nan |-> FALSE, v |-> PostedTime(a).ms - PostedTime(b).ms]

\* the comparator handed to sort; the difference of two times is NaN when
\* either date is invalid
compareJobs(a, b) ==
  IF Score(a) # Score(b) THEN [nan |-> FALSE, v |-> Score(b) - Score(a)]
  ELSE IF PostedTime(a).nan \/ PostedTime(b).nan THEN [nan |-> TRUE, v |-> 0]
  ELSE [nan |-> FALSE, v |-> PostedTime(b).ms - PostedTime(a).ms]

\* SortCompare of Array.prototype.sort: a NaN result counts as +0
SortCompare(a, b) == IF compareJobs(a, b).nan THEN 0 ELSE compareJobs(a, b).v

Sign(n) == IF n < 0 THEN -1 ELSE IF n > 0 THEN 1 ELSE 0

\* the comparator is a consistent comparison function for the elements
\* (ECMA-262, Array.prototype.sort)
ConsistentComparator(jobs) ==
  \A i, j, k \in DOMAIN jobs :
    LET a == jobs[i]  b == jobs[j]  c == jobs[k] IN
    /\ SortCompare(a, a) = 0
    /\ Sign(SortCompare(a, b)) = -Sign(SortCompare(b, a))
    /\ (SortCompare(a, b) = 0 /\ SortCompare(b, c) = 0) => SortCompare(a, c) = 0
    /\ (SortCompare(a, b) < 0 /\ SortCompare(b, c) < 0) => SortCompare(a, c) < 0
    /\ (SortCompare(a, b) > 0 /\ SortCompare(b, c) > 0) => SortCompare(a, c) > 0

\* an insertion that places x before the elements it compares equal to
RECURSIVE InsertSorted_beforeEquals(_, _)
InsertSorted_beforeEquals(sorted, x) ==
  IF sorted = << >> THEN <<x>>
  ELSE IF SortCompare(Head(sorted), x) < 0
    THEN <<Head(sorted)>> \o InsertSorted_beforeEquals(Tail(sorted), x)
  ELSE <<x>> \o sorted

\* x placed after every element that does not sort after it
RECURSIVE InsertSorted(_, _)
InsertSorted(sorted, x) ==
  IF sorted = << >> THEN <<x>>
  ELSE IF SortCompare(Head(sorted), x) <= 0
    THEN <<Head(sorted)>> \o InsertSorted(Tail(sorted), x)
  ELSE <<x>> \o sorted

RECURSIVE StableSort(_, _)
StableSort(jobs, n) ==
  IF n = 0 THEN << >> ELSE InsertSorted(StableSort(jobs, n - 1), jobs[n])

Reverse(s) == [i \in 1..Len(s) |-> s[Len(s) + 1 - i]]

\* the length of the run that starts the array: elements are taken while
\* each compares with the one before it as the first pair does
RECURSIVE RunLength(_, _, _)
RunLength(work, isDescending, runLength) ==
  IF runLength = Len(work) THEN runLength
  ELSE LET order == SortCompare(work[runLength + 1], work[runLength]) IN
       IF (isDescending /\ order >= 0) \/ (~isDescending /\ order < 0) THEN runLength
       ELSE RunLength(work, isDescending, runLength + 1)

\* the array with its first run made ascending, and the length of that run
CountAndMakeRun(work) ==
  LET isDescending == SortCompare(work[2], work[1]) < 0
      runLength == RunLength(work, isDescending, 2)
  IN [runLength |-> runLength,
      work |-> IF isDescending
                 THEN Reverse(SubSeq(work, 1, runLength))
                        \o SubSeq(work, runLength + 1, Len(work))
                 ELSE work]

\* where the pivot goes among the elements before it; left and right are
\* 0-based as in the engine
RECURSIVE BinarySearch(_, _, _, _)
BinarySearch(work, pivot, left, right) ==
  IF left >= right THEN left
  ELSE LET mid == left + ((right - left) \div 2) IN
       IF SortCompare(pivot, work[mid + 1]) < 0
         THEN BinarySearch(work, pivot, left, mid)
         ELSE BinarySearch(work, pivot, mid + 1, right)

\* the elements from the 0-based index start on, each inserted among the
\* sorted elements before it
RECURSIVE BinaryInsertionSort(_, _)
BinaryInsertionSort(work, start) ==
  IF start >= Len(work) THEN work
  ELSE LET pivot == work[start + 1]
           left == BinarySearch(work, pivot, 0, start)
       IN BinaryInsertionSort(
            SubSeq(work, 1, left) \o <<pivot>> \o SubSeq(work, left + 1, start)
              \o SubSeq(work, start + 2, Len(work)),
            start + 1)

\* Array.prototype.sort as Node's engine runs it on an array shorter than
\* its minimum run length of 64: one run, then binary insertion
ArrayTimSort(jobs) ==
  IF Len(jobs) < 2 THEN jobs
  ELSE BinaryInsertionSort(CountAndMakeRun(jobs).work, CountAndMakeRun(jobs).runLength)

\* the order jobs.sort(compare) leaves the array in: the stable sorted order
\* that the language fixes for a consistent comparator, and otherwise the
\* implementation-defined order, which is the one Node's engine produces
SortOutcomes(jobs) ==
  IF ConsistentComparator(jobs) THEN {StableSort(jobs, Len(jobs))} ELSE {ArrayTimSort(jobs)}

ListingSeparator == "\n---\n\n"

\* a loop that puts the separator after every listing, the last one too
RECURSIVE ListingsFrom_separatorAfterEach(_, _, _)
ListingsFrom_separatorAfterEach(sorted, n, now) ==
  IF n > Len(sorted) THEN Pieces(<< >>)
  ELSE Then(formatJobListing(sorted[n], n, now),
       Then(Pieces(<<ListingSeparator>>),
            ListingsFrom_separatorAfterEach(sorted, n + 1, now)))

\* sortedJobs.forEach((job, index) => ...) from the listing at position n on
RECURSIVE ListingsFrom(_, _, _)
ListingsFrom(sorted, n, now) ==
  IF n > Len(sorted) THEN Pieces(<< >>)
  ELSE Then(formatJobListing(sorted[n], n, now),
       Then(Pieces(IF n - 1 < Len(sorted) - 1 THEN <<ListingSeparator>> ELSE << >>),
            ListingsFrom(sorted, n + 1, now)))

JobOpportunitiesHeading == "## :briefcase: Job Opportunities\n\n"

\* formatJobListingsSection, sorted being the array as jobs.sort left it
formatJobListingsSection(sorted, now) ==
  Then(Pieces(<<JobOpportunitiesHeading>>),
  Then(ListingsFrom(sorted, 1, now),
       Pieces(<<"\n\n">>)))

NextStepsHeading == "## :dart: Next Steps\n\n"

formatNextStepsSection(jobCount) ==
  <<NextStepsHeading>>
  \o (IF jobCount = 1
        THEN <<"Ready to apply? Click the \"Apply Now\" button above to get started!\n\n">>
        ELSE << "Found " \o ToString(jobCount) \o " opportunities! Here's how to proceed:\n\n",
                "1. **Review** each job listing above\n",
                "2. **Research** companies that interest you\n",
                "3. **Click \"Apply Now\"** to start the application process\n",
                "4. **Prepare** for interviews using the interview prep links\n\n" >>)
  \o <<":bulb: **Tip:** Jobs with higher match scores (:dart:) align better with your preferences.\n\n">>

\* metadata.x && metadata.x.length > 0
NonEmptyList(x) == (x.t = "arr" /\ Len(x.v) > 0) \/ (x.t = "str" /\ Len(x.v) > 0)

LengthOf(x) == IF x.t = "arr" THEN Len(x.v) ELSE Len(x.v)

FooterRule == "---\n\n"

formatFooter(metadata) ==
  << FooterRule, "<details>\n", "<summary>:robot: System Information</summary>\n\n",
     "- **Generated:** " \o Str(Get(metadata, "generated_at")) \o "\n" >>
  \o (IF Truthy(Get(metadata, "version"))
        THEN <<"- **Version:** " \o Str(Get(metadata, "version")) \o "\n">> ELSE << >>)
  \o (IF NonEmptyList(Get(metadata, "warnings"))
        THEN <<"- **Warnings:** " \o ToString(LengthOf(Get(metadata, "warnings"))) \o "\n">>
        ELSE << >>)
  \o (IF NonEmptyList(Get(metadata, "errors"))
        THEN <<"- **Errors:** " \o ToString(LengthOf(Get(metadata, "errors"))) \o "\n">>
        ELSE << >>)
  \o << "\n*This digest was generated automatically by the Job Search Automation system.*\n",
        "</details>" >>

Header(metadata) ==
  "# Job Search Results - " \o NewDate(Get(metadata, "generated_at")).long \o "\n\n"

\* a formatBody that does not return after the empty-results section
formatBody_noEarlyReturn(d, sorted, now) ==
  LET summary == Get(d, "summary")
      jobs == Get(d, "jobs").v
      metadata == Get(d, "metadata")
  IN
  Then(Pieces(<<Header(metadata)>>),
  Then(formatSummarySection(summary),
  Then(IF Len(jobs) = 0 THEN Pieces(formatEmptyResultsSection) ELSE Pieces(<< >>),
  Then(formatJobListingsSection(sorted, now),
       Pieces(formatNextStepsSection(Len(jobs)) \o formatFooter(metadata))))))

\* formatBody, sorted being the array as jobs.sort leaves it
formatBody(d, sorted, now) ==
  LET summary == Get(d, "summary")
      jobs == Get(d, "jobs").v
      metadata == Get(d, "metadata")
  IN
  Then(Pieces(<<Header(metadata)>>),
  Then(formatSummarySection(summary),
       IF Len(jobs) = 0 THEN Pieces(formatEmptyResultsSection)
       ELSE Then(formatJobListingsSection(sorted, now),
                 Pieces(formatNextStepsSection(Len(jobs)) \o formatFooter(metadata)))))

\* jobs.sort runs when the summary section was written and jobs is not empty
SortReached(d) ==
  /\ formatSummarySection(Get(d, "summary")).err = NoError
  /\ Len(Get(d, "jobs").v) > 0

\* the digest object once format is over: sort reorders d.jobs in place
digestAfterFormat(d, sorted) ==
  IF SortReached(d) THEN With(d, "jobs", JArr(sorted)) ELSE d

\* a format that takes the job count of the title from the jobs array
format_jobCountFromLength(d, sorted, now) ==
  LET title == formatTitle(Whole(Len(Get(d, "jobs").v)), Get(Get(d, "summary"), "new_jobs"))
      body == formatBody(d, sorted, now)
  IN [err |-> body.err,
      content |-> IF body.err = NoError THEN [title |-> title, body |-> body.out]
                  ELSE [title |-> "", body |-> << >>]]

\* IssueFormatter.format: the error thrown or the {title, body} returned
format(d, sorted, now) ==
  LET title == formatTitle(Get(Get(d, "summary"), "total_jobs_found"),
                           Get(Get(d, "summary"), "new_jobs"))
      body == formatBody(d, sorted, now)
  IN [err |-> body.err,
      content |-> IF body.err = NoError THEN [title |-> title, body |-> body.out]
                  ELSE [title |-> "", body |-> << >>]]

---------------------------------------------------------------------------
(* JobDigestService and its collaborators.  A value that was thrown is      *)
(* [instanceofError, ref, text]: ref names the place that created an Error  *)
(* object and so tells one Error object from another of the same message;   *)
(* text is the message of an Error, or the thrown value itself otherwise.   *)

ErrorObject(ref, message) == [instanceofError |-> TRUE, ref |-> ref, text |-> message]
ThrownString(s) == [instanceofError |-> FALSE, ref |-> "", text |-> s]
NothingCaught == [instanceofError |-> FALSE, ref |-> "none", text |-> ""]

Log(level, message) == [level |-> level, message |-> message]

Pending == [state |-> "pending", value |-> Undef]
NotCalled == [state |-> "not called", value |-> Undef]
Fulfilled(x) == [state |-> "fulfilled", value |-> x]
RejectedWith(e) == [state |-> "rejected", value |-> e]

\* the match_score values that are truthy numbers: a score of 0 is left out
RECURSIVE matchScores_truthy(_, _)
matchScores_truthy(jobs, n) ==
  IF n = 0 THEN << >>
  ELSE matchScores_truthy(jobs, n - 1)
       \o (IF Get(jobs[n], "match_score").t = "num" /\ Get(jobs[n], "match_score").v # 0
             THEN <<Get(jobs[n], "match_score").v>> ELSE << >>)

\* the match_score values that are numbers, in hundredths
RECURSIVE matchScores(_, _)
matchScores(jobs, n) ==
  IF n = 0 THEN << >>
  ELSE matchScores(jobs, n - 1)
       \o (IF Get(jobs[n], "match_score").t = "num"
             THEN <<Get(jobs[n], "match_score").v>> ELSE << >>)

RECURSIVE Sum(_)
Sum(s) == IF s = << >> THEN 0 ELSE Head(s) + Sum(Tail(s))

\* Math.round(avgMatchScore * 100) / 100, the scores being in hundredths:
\* Math.round(x) is floor(x + 1/2)
avgMatchScore(scores) ==
  IF Len(scores) > 0
    THEN JNum((2 * Sum(scores) + Len(scores)) \div (2 * Len(scores)))
    ELSE JNum(0)

getSummaryStats(d) ==
  LET summary == Get(d, "summary")
      jobs == Get(d, "jobs").v
  IN [totalJobs |-> Get(summary, "total_jobs_found"),
      newJobs |-> Get(summary, "new_jobs"),
      sources |-> Get(summary, "sources_queried"),
      avgMatchScore |-> avgMatchScore(matchScores(jobs, Len(jobs)))]

\* the length of the text: the number of its tokens
TextLength(text) == Len(text)

\* issueContent.body.length: the characters of all the pieces
RECURSIVE BodyLength(_)
BodyLength(body) == IF body = << >> THEN 0 ELSE Len(Head(body)) + BodyLength(Tail(body))

StartingLogs(text) ==
  << Log("info", "Starting digest issue creation..."),
     Log("debug", "Digest data length: " \o ToString(TextLength(text)) \o " characters") >>

ProcessedLog(stats) ==
  Log("info", "Processed digest: " \o Str(stats.totalJobs) \o " jobs (" \o Str(stats.newJobs)
                \o " new) from " \o JoinFrom(stats.sources.v, 1, ", "))

ContentLogs(content) ==
  << Log("debug", "Issue title: " \o content.title),
     Log("debug", "Issue body length: " \o ToString(BodyLength(content.body)) \o " characters") >>

\* a label set that leaves out 'no-results'
labels_withoutNoResults(d) ==
  <<"job-digest", "automated", "jobs-" \o Str(Get(Get(d, "summary"), "total_jobs_found"))>>
  \o (IF GreaterThanZero(Get(Get(d, "summary"), "new_jobs")) THEN <<"new-jobs">> ELSE << >>)

\* the labels of the createIssue call
labels(d) ==
  <<"job-digest", "automated", "jobs-" \o Str(Get(Get(d, "summary"), "total_jobs_found"))>>
  \o (IF GreaterThanZero(Get(Get(d, "summary"), "new_jobs")) THEN <<"new-jobs">> ELSE << >>)
  \o (IF Get(Get(d, "summary"), "total_jobs_found") = Whole(0) THEN <<"no-results">> ELSE << >>)

\* parameters that leave the body empty
CreateIssueParams_bodyless(content, d) ==
  [title |-> content.title, body |-> << >>, labels |-> labels(d)]

CreateIssueParams(content, d) ==
  [title |-> content.title, body |-> content.body, labels |-> labels(d)]

\* success messages with the summary before the issue
SuccessLogs_summaryFirst(issue, stats) ==
  << Log("info", ":bar_chart: Summary: " \o Str(stats.totalJobs) \o " jobs, avg match score: "
                   \o Str(stats.avgMatchScore)),
     Log("info", ":white_check_mark: Created issue #" \o ToString(issue.number) \o ": " \o issue.url) >>

SuccessLogs(issue, stats) ==
  << Log("info", ":white_check_mark: Created issue #" \o ToString(issue.number) \o ": " \o issue.url),
     Log("info", ":bar_chart: Summary: " \o Str(stats.totalJobs) \o " jobs, avg match score: "
                   \o Str(stats.avgMatchScore)) >>

\* a message that never names the error
errorMessage_generic(error) == "Unknown error occurred"

\* error instanceof Error ? error.message : "Unknown error occurred"
errorMessage(error) ==
  IF error.instanceofError THEN error.text ELSE "Unknown error occurred"

\* a catch block that throws a new Error of the same message
catchBlock_wrapping(error) ==
  [logs |-> <<Log("error", "Failed to create digest issue: " \o errorMessage(error))>>,
   thrown |-> ErrorObject("JobDigestService.createDigestIssue", errorMessage(error))]

\* the catch block of createDigestIssue: what it logs and what it throws
catchBlock(error) ==
  [logs |-> <<Log("error", "Failed to create digest issue: " \o errorMessage(error))>>,
   thrown |-> error]

\* a validateDigest that lets the error of parse through
validateDigest_rethrowing(text) ==
  LET r == parse(text) IN
  IF r.threw THEN RejectedWith(ErrorObject("DigestProcessor.parse", r.message))
  ELSE Fulfilled(JObj([k \in {"valid"} |-> JBool(TRUE)]))

\* a validateDigest that reports every failure by the same words
validateDigest_unknownError(text) ==
  LET r == parse(text)
      stats == getSummaryStats(r.value)
  IN
  IF r.threw
    THEN Fulfilled(ObjOf([valid |-> JBool(FALSE), error |-> JStr("Unknown validation error")]))
    ELSE Fulfilled(ObjOf([valid |-> JBool(TRUE),
                          summary |-> ObjOf([totalJobs |-> stats.totalJobs,
                                             newJobs |-> stats.newJobs,
                                             sources |-> stats.sources,
                                             avgMatchScore |-> stats.avgMatchScore])]))

\* validateDigest(digestJson): the promise it returns
validateDigest(text) ==
  LET r == parse(text)
      stats == getSummaryStats(r.value)
  IN
  IF r.threw
    THEN Fulfilled(ObjOf([valid |-> JBool(FALSE), error |-> JStr(r.message)]))
    ELSE Fulfilled(ObjOf([valid |-> JBool(TRUE),
                          summary |-> ObjOf([totalJobs |-> stats.totalJobs,
                                             newJobs |-> stats.newJobs,
                                             sources |-> stats.sources,
                                             avgMatchScore |-> stats.avgMatchScore])]))

\* what the injected client answers: an IssueResult, or a failure
IssueResults ==
  { [number |-> 1001, url |-> "https://github.com/test-org/job-search-repo/issues/1001"],
    [number |-> 42, url |-> "https://github.com/owner/repo/issues/42"] }

ClientFailures ==
  { ErrorObject("GitHubClient.createIssue", "GitHub API: Network timeout"),
    ThrownString("service unavailable") }

---------------------------------------------------------------------------
(* The digests and raw texts the model is run on *)

EmptyObj == JObj([k \in {} |-> Undef])

ValidQuery == ObjOf([keywords |-> JStr("software engineer")])

ValidSources == JArr(<<JStr("Adzuna"), JStr("Stack Overflow")>>)

SummaryOf(total, new) ==
  ObjOf([total_jobs_found |-> total, new_jobs |-> new, updated_jobs |-> Whole(1),
         duplicates_removed |-> Whole(0), processing_time_seconds |-> JNum(250),
         sources_queried |-> ValidSources])

ValidSummary == SummaryOf(Whole(3), Whole(2))

ValidMetadata ==
  ObjOf([generated_at |-> JStr("2025-07-31T09:00:00Z"), version |-> JStr("1.0.0")])

\* a listing with every required field, for position n of a jobs array
BaseJob(n) ==
  ObjOf([id |-> JStr("job-" \o ToString(n)),
         title |-> JStr("Engineer " \o ToString(n)),
         company |-> JStr("TechCorp Inc"),
         url |-> JStr("https://example.com/jobs/" \o ToString(n)),
         description |-> JStr("We are looking for an engineer to join our team."),
         source |-> JStr("Adzuna"),
         posted_date |-> JStr("2025-07-30T10:00:00Z")])

\* the elements of a jobs array used to exercise validate
JobShapes ==
  { "ok", "score0", "score1", "scoreHalf", "scoreHigh", "scoreNegative",
    "scoreString", "scoreNull", "nullElement", "numberElement", "noId",
    "noTitle", "emptyCompany", "urlNumber", "noDescription", "sourceNull",
    "noPostedDate", "idOnly", "noTitleBadScore" }

CoreJobShapes == { "ok", "score1", "scoreHigh", "noTitle", "nullElement", "noPostedDate" }

JobOfShape(shape, n) ==
  CASE shape = "ok" -> BaseJob(n)
    [] shape = "score0" -> With(BaseJob(n), "match_score", JNum(0))
    [] shape = "score1" -> With(BaseJob(n), "match_score", JNum(100))
    [] shape = "scoreHalf" -> With(BaseJob(n), "match_score", JNum(50))
    [] shape = "scoreHigh" -> With(BaseJob(n), "match_score", JNum(150))
    [] shape = "scoreNegative" -> With(BaseJob(n), "match_score", JNum(-10))
    [] shape = "scoreString" -> With(BaseJob(n), "match_score", JStr("0.5"))
    [] shape = "scoreNull" -> With(BaseJob(n), "match_score", JNull)
    [] shape = "nullElement" -> JNull
    [] shape = "numberElement" -> Whole(7)
    [] shape = "noId" -> Without(BaseJob(n), "id")
    [] shape = "noTitle" -> Without(BaseJob(n), "title")
    [] shape = "emptyCompany" -> With(BaseJob(n), "company", JStr(""))
    [] shape = "urlNumber" -> With(BaseJob(n), "url", Whole(42))
    [] shape = "noDescription" -> Without(BaseJob(n), "description")
    [] shape = "sourceNull" -> With(BaseJob(n), "source", JNull)
    [] shape = "noPostedDate" -> Without(BaseJob(n), "posted_date")
    [] shape = "idOnly" -> ObjOf([id |-> JStr("job-incomplete")])
    [] shape = "noTitleBadScore" ->
         With(Without(BaseJob(n), "title"), "match_score", JNum(150))

JobsOfShapes(shapes) == JArr([n \in 1..Len(shapes) |-> JobOfShape(shapes[n], n)])

\* every array of at most MaxJobs elements of the core shapes, and every
\* array of valid listings with one element of any shape at any position
ShapeLists ==
  UNION {[1..n -> CoreJobShapes] : n \in 0..MaxJobs}
  \cup { [i \in 1..n |-> IF i = p THEN sh ELSE "ok"] :
           n \in 1..MaxJobs, p \in 1..MaxJobs, sh \in JobShapes }

SummaryVariants ==
  { Undef, JNull, JStr("not an object"), JArr(<< >>),
    SummaryOf(Undef, Whole(0)), SummaryOf(JStr("3"), Whole(0)),
    SummaryOf(Whole(3), Undef), SummaryOf(Whole(3), JNull),
    Without(ValidSummary, "sources_queried"),
    With(ValidSummary, "sources_queried", JStr("Adzuna")),
    ValidSummary }

JobsVariants ==
  { Undef, JStr("not an array"), EmptyObj, JArr(<< >>),
    JobsOfShapes(<<"ok">>), JobsOfShapes(<<"noTitle">>),
    JobsOfShapes(<<"ok", "scoreHigh">>), JobsOfShapes(<<"nullElement">>) }

MetadataVariants ==
  { Undef, JNull, JStr("not an object"), EmptyObj,
    ObjOf([generated_at |-> Whole(2025)]), ObjOf([generated_at |-> JStr("")]),
    ValidMetadata }

DigestOf(summary, jobs, metadata) ==
  ObjOf([query |-> ValidQuery, summary |-> summary, jobs |-> jobs, metadata |-> metadata])

\* decoded values that are not digests at all
TopLevelVariants == { JNull, Whole(5), JStr("digest"), JBool(TRUE), JArr(<< >>), EmptyObj }

ValidationDigests ==
  { DigestOf(s, j, m) : s \in SummaryVariants, j \in JobsVariants, m \in MetadataVariants }
  \cup { DigestOf(ValidSummary, JobsOfShapes(l), m) :
           l \in ShapeLists, m \in {ValidMetadata, Undef} }
  \cup TopLevelVariants

\* texts that are not JSON: "", "{", "{ invalid json }", a value followed by
\* a stray token, an unterminated array
MalformedTexts ==
  { << >>, <<LBrace>>,
    <<LBrace, Scalar(JStr("invalid")), Scalar(JStr("json")), RBrace>>,
    JSONstringify(DigestOf(ValidSummary, JArr(<< >>), ValidMetadata)) \o <<RBrace>>,
    <<LBrack, Scalar(Whole(1)), Comma>> }

\* listings that differ in what the sort compares: the score (absent, 0 or
\* more) and the posted date (two days apart, or not a date at all)
SortShapes ==
  { [score |-> Undef, date |-> "2025-07-29T08:00:00Z"],
    [score |-> JNum(0), date |-> "2025-07-30T10:00:00Z"],
    [score |-> JNum(95), date |-> "2025-07-29T08:00:00Z"],
    [score |-> JNum(95), date |-> "2025-07-30T10:00:00Z"],
    [score |-> JNum(95), date |-> "invalid-date"],
    [score |-> JNum(72), date |-> "2025-07-22T12:00:00Z"] }

SortJob(shape, n) ==
  LET dated == With(BaseJob(n), "posted_date", JStr(shape.date)) IN
  IF shape.score = Undef THEN dated ELSE With(dated, "match_score", shape.score)

SortDigests ==
  { DigestOf(SummaryOf(Whole(Len(l)), Whole(1)),
             JArr([n \in 1..Len(l) |-> SortJob(l[n], n)]), ValidMetadata) :
      l \in UNION {[1..n -> SortShapes] : n \in 0..MaxJobs} }

\* every pair of counts with every length of the jobs array
TitleDigests ==
  { DigestOf(SummaryOf(Whole(total), Whole(new)),
             JobsOfShapes([n \in 1..len |-> "ok"]), ValidMetadata) :
      total \in {0, 1, 2, 3, 15}, new \in {0, 1, 2}, len \in 0..MaxJobs }

\* a listing with the optional fields
RichJob(n) ==
  ObjOf([id |-> JStr("job-" \o ToString(n)),
         title |-> JStr("Senior Software Engineer"),
         company |-> JStr("TechCorp Inc"),
         location |-> JStr("Remote"),
         salary |-> JStr("$100,000 - $120,000"),
         description |-> JStr("We are looking for a senior software engineer to join our team..."),
         requirements |-> JStr("Bachelor's degree in Computer Science, 5+ years experience"),
         url |-> JStr("https://example.com/jobs/123"),
         source |-> JStr("Adzuna"),
         posted_date |-> JStr("2025-07-30T10:00:00Z"),
         job_type |-> JStr("full-time"),
         experience_level |-> JStr("senior"),
         remote_option |-> JBool(TRUE),
         match_score |-> JNum(95),
         match_reasons |-> JArr(<<JStr("Remote work available"), JStr("Senior level")>>)])

\* digests whose optional parts vary: fields validate does not look at are
\* absent or of another type than the declared one
RichDigests ==
  { DigestOf(s, j, m) :
      s \in { ValidSummary,
              With(ValidSummary, "duplicates_removed", Whole(12)),
              Without(With(ValidSummary, "processing_time_seconds", Whole(12)),
                      "duplicates_removed"),
              With(ValidSummary, "processing_time_seconds", JNum(5)),
              Without(ValidSummary, "processing_time_seconds"),
              With(ValidSummary, "processing_time_seconds", JStr("2.5")),
              With(ValidSummary, "processing_time_seconds", JNull) },
      j \in { JArr(<< >>),
              JArr(<<RichJob(1)>>),
              JArr(<<BaseJob(1), RichJob(2)>>),
              JArr(<<With(BaseJob(1), "requirements", Whole(5))>>),
              JArr(<<With(BaseJob(1), "match_reasons", JStr("remote"))>>) },
      m \in { ValidMetadata,
              With(With(ValidMetadata, "warnings", JArr(<<JStr("API rate limit approaching")>>)),
                   "errors", JArr(<< >>)) } }

\* n times the string s
RECURSIVE Repeat(_, _)
Repeat(s, n) ==
  IF n = 0 THEN ""
  ELSE IF n % 2 = 0 THEN LET half == Repeat(s, n \div 2) IN half \o half
  ELSE s \o Repeat(s, n - 1)

\* a text without spaces
Unspaced(len) == Repeat("x", len)

\* a text of len characters whose only space is at the 0-based index at
Spaced(len, at) == Repeat("x", at) \o " " \o Repeat("x", len - at - 1)

\* descriptions around the limit of 300 characters and its 80% mark
LongDescriptions ==
  { Unspaced(300), Unspaced(301), Spaced(500, 250), Spaced(400, 240), Spaced(400, 241),
    Spaced(400, 299), Spaced(400, 300), Spaced(101, 100) \o Spaced(299, 249),
    Spaced(251, 250) \o Spaced(149, 29), Spaced(301, 300) }

\* requirements around the limit of 200 characters and its 80% mark
LongRequirements ==
  { Unspaced(200), Unspaced(201), Spaced(300, 160), Spaced(300, 161),
    Spaced(200, 199) \o Spaced(100, 0) }

LongTextDigests ==
  { DigestOf(ValidSummary,
             JArr(<<With(With(BaseJob(1), "description", JStr(d)), "requirements", JStr(r))>>),
             ValidMetadata) :
      d \in LongDescriptions, r \in {"Bachelor's degree in Computer Science"} }
  \cup { DigestOf(ValidSummary,
                  JArr(<<BaseJob(1), With(BaseJob(2), "requirements", JStr(r))>>),
                  ValidMetadata) :
           r \in LongRequirements }

\* a listing posted at each of the dates, and at what is no date
DatedDigests ==
  { DigestOf(ValidSummary, JArr(<<With(BaseJob(1), "posted_date", JStr(date))>>), ValidMetadata) :
      date \in DOMAIN DateTable \cup {"invalid-date", "yesterday"} }

\* one listing with every choice of the optional fields the badges show
BadgeDigests ==
  LET Opt(job, key, value) == IF value = Undef THEN job ELSE With(job, key, value) IN
  { DigestOf(ValidSummary,
             JArr(<<Opt(Opt(Opt(Opt(Opt(Opt(BaseJob(1), "location", l), "salary", s),
                                "job_type", t), "experience_level", e),
                        "remote_option", r), "match_score", m)>>),
             ValidMetadata) :
      l \in {Undef, JStr("Remote"), JStr("")},
      s \in {Undef, JStr("$100,000 - $120,000")},
      t \in {Undef, JStr("full-time")},
      e \in {Undef, JStr("senior")},
      r \in {Undef, JBool(TRUE), JBool(FALSE)},
      m \in {Undef, JNum(0), JNum(87)} }

Digests ==
  ValidationDigests \cup SortDigests \cup TitleDigests \cup RichDigests
  \cup LongTextDigests \cup DatedDigests \cup BadgeDigests

\* the digests the whole service is run on
ServiceDigests ==
  TitleDigests \cup RichDigests \cup TopLevelVariants
  \cup {d \in SortDigests : Len(Get(d, "jobs").v) <= 2}
  \cup { DigestOf(s, JArr(<< >>), ValidMetadata) : s \in SummaryVariants }
  \cup { DigestOf(ValidSummary, j, m) : j \in JobsVariants, m \in {ValidMetadata, Undef} }
  \cup { DigestOf(ValidSummary, JobsOfShapes(<<"ok", "ok", sh>>), ValidMetadata) :
           sh \in {"noTitle", "nullElement", "scoreHigh"} }
  \cup { DigestOf(ValidSummary, JobsOfShapes(l), ValidMetadata) :
           l \in { <<"ok", "score0", "score1">>, <<"score0", "score0", "score1">>,
                   <<"scoreHalf", "ok", "score1">> } }

\* the digests format is called on directly
FormatterDigests == SortDigests \cup RichDigests

Malformed(toks) == [t |-> "text", v |-> toks]

Sources == Digests \cup {Malformed(toks) : toks \in MalformedTexts}

ServiceSources == ServiceDigests \cup {Malformed(toks) : toks \in MalformedTexts}

\* the text the producer hands over: JSON.stringify(digest), or the malformed text
TextOf(src) == IF src.t = "text" THEN src.v ELSE JSONstringify(src)

---------------------------------------------------------------------------
(* The pipeline *)

NoContent == [title |-> "", body |-> << >>]

\* no CLI process is running
NoCli == [pc |-> "none"]

\* a createDigestIssue call on the text of one of the sources is about to start
Started(sources) ==
  /\ source \in sources
  /\ digestJson = TextOf(source)
  /\ pc = "start"
  /\ digest = Undef
  /\ parseError = NoError
  /\ sortedJobs = << >>
  /\ issueContent = NoContent
  /\ formatError = NoError
  /\ wallClock = 0
  /\ logs = << >>
  /\ apiCalls = << >>
  /\ caught = NothingCaught
  /\ result = Pending
  /\ validation = NotCalled
  /\ formatCalls = << >>
  /\ calls = << >>
  /\ cli = NoCli

Init == Started(Sources)

\* createDigestIssue up to processor.parse(digestJson); when parse throws,
\* the catch block
Parse ==
  /\ pc = "start"
  /\ LET r == parse(digestJson)
         error == ErrorObject("DigestProcessor.parse", r.message)
     IN
       /\ pc' = IF r.threw THEN "rejected" ELSE "parsed"
       /\ digest' = r.value
       /\ parseError' = r.message
       /\ caught' = IF r.threw THEN error ELSE caught
       /\ logs' = logs \o StartingLogs(digestJson)
                    \o (IF r.threw THEN catchBlock(error).logs ELSE << >>)
       /\ result' = IF r.threw THEN RejectedWith(catchBlock(error).thrown) ELSE result
  /\ UNCHANGED <<source, digestJson, sortedJobs, issueContent, formatError, wallClock,
                 apiCalls, validation, formatCalls>>
  /\ UNCHANGED <<calls, cli>>

\* createDigestIssue from getSummaryStats to formatter.format(digest) on the
\* object parse returned; when format throws, the catch block
Format ==
  /\ pc = "parsed"
  /\ \E clock \in Clock, sorted \in SortOutcomes(Get(digest, "jobs").v) :
       LET r == format(digest, sorted, clock)
           error == ErrorObject("IssueFormatter.format", r.err)
           threw == r.err # NoError
       IN
         /\ pc' = IF threw THEN "formatThrew" ELSE "formatted"
         /\ issueContent' = r.content
         /\ formatError' = r.err
         /\ digest' = digestAfterFormat(digest, sorted)
         /\ sortedJobs' = IF SortReached(digest) THEN sorted ELSE << >>
         /\ wallClock' = clock
         /\ formatCalls' = Append(formatCalls, [clock |-> clock, err |-> r.err, content |-> r.content])
         /\ caught' = IF threw THEN error ELSE caught
         /\ logs' = logs \o <<ProcessedLog(getSummaryStats(digest))>>
                      \o (IF threw THEN catchBlock(error).logs ELSE << >>)
         /\ result' = IF threw THEN RejectedWith(catchBlock(error).thrown) ELSE result
  /\ UNCHANGED <<source, digestJson, parseError, apiCalls, validation>>
  /\ UNCHANGED <<calls, cli>>

\* createDigestIssue from the debug messages to the call of
\* githubClient.createIssue, whose answer it then awaits
CreateIssue ==
  /\ pc = "formatted"
  /\ pc' = "awaiting"
  /\ logs' = logs \o ContentLogs(issueContent)
  /\ apiCalls' = Append(apiCalls, CreateIssueParams(issueContent, digest))
  /\ UNCHANGED <<source, digestJson, digest, parseError, sortedJobs, issueContent,
                 formatError, wallClock, caught, result, validation, formatCalls>>
  /\ UNCHANGED <<calls, cli>>

\* the client answers with an issue: the two info messages and the return
IssueCreated ==
  /\ pc = "awaiting"
  /\ \E issue \in IssueResults :
       /\ logs' = logs \o SuccessLogs(issue, getSummaryStats(digest))
       /\ result' = Fulfilled(issue)
  /\ pc' = "created"
  /\ UNCHANGED <<source, digestJson, digest, parseError, sortedJobs, issueContent,
                 formatError, wallClock, apiCalls, caught, validation, formatCalls>>
  /\ UNCHANGED <<calls, cli>>

\* the client fails: the catch block
IssueFailed ==
  /\ pc = "awaiting"
  /\ \E error \in ClientFailures :
       /\ caught' = error
       /\ logs' = logs \o catchBlock(error).logs
       /\ result' = RejectedWith(catchBlock(error).thrown)
  /\ pc' = "failed"
  /\ UNCHANGED <<source, digestJson, digest, parseError, sortedJobs, issueContent,
                 formatError, wallClock, apiCalls, validation, formatCalls>>
  /\ UNCHANGED <<calls, cli>>

\* a validateDigest call that tells the logger about it
ValidateDigest_logging ==
  /\ pc \in {"start", "awaiting", "rejected", "formatThrew", "created", "failed"}
  /\ validation' = validateDigest(digestJson)
  /\ logs' = Append(logs, Log("info", "Validating digest..."))
  /\ UNCHANGED <<source, digestJson, pc, digest, parseError, sortedJobs, issueContent,
                 formatError, wallClock, apiCalls, caught, result, formatCalls>>
  /\ UNCHANGED <<calls, cli>>

\* a validateDigest call on the text: before the createDigestIssue call,
\* while it awaits the client, or after it has settled
ValidateDigest ==
  /\ pc \in {"start", "awaiting", "rejected", "formatThrew", "created", "failed"}
  /\ validation' = validateDigest(digestJson)
  /\ UNCHANGED <<source, digestJson, pc, digest, parseError, sortedJobs, issueContent,
                 formatError, wallClock, logs, apiCalls, caught, result, formatCalls>>
  /\ UNCHANGED <<calls, cli>>

\* the pipeline of createDigestIssue: the text is parsed and the digest formatted
Next == Parse \/ Format

Spec == Init /\ [][Next]_vars

\* the service with its collaborators: createDigestIssue to its end, and validateDigest
ServiceInit == Started(ServiceSources)

ServiceNext == Parse \/ Format \/ CreateIssue \/ IssueCreated \/ IssueFailed \/ ValidateDigest

ServiceSpec == ServiceInit /\ [][ServiceNext]_vars

\* formatter.format(digest) called again and again on one digest object, the
\* wall clock standing still
FormatCall ==
  /\ pc = "formatter"
  /\ Len(formatCalls) < MaxFormatCalls
  /\ \E sorted \in SortOutcomes(Get(digest, "jobs").v) :
       LET r == format(digest, sorted, wallClock) IN
         /\ issueContent' = r.content
         /\ formatError' = r.err
         /\ digest' = digestAfterFormat(digest, sorted)
         /\ sortedJobs' = IF SortReached(digest) THEN sorted ELSE sortedJobs
         /\ formatCalls' = Append(formatCalls, [clock |-> wallClock, err |-> r.err, content |-> r.content])
  /\ UNCHANGED <<source, digestJson, pc, parseError, wallClock, logs, apiCalls, caught,
                 result, validation>>
  /\ UNCHANGED <<calls, cli>>

FormatterInit ==
  /\ source \in FormatterDigests
  /\ digestJson = TextOf(source)
  /\ pc = "formatter"
  /\ digest = parse(digestJson).value
  /\ parseError = NoError
  /\ sortedJobs = << >>
  /\ issueContent = NoContent
  /\ formatError = NoError
  /\ wallClock \in Clock
  /\ logs = << >>
  /\ apiCalls = << >>
  /\ caught = NothingCaught
  /\ result = Pending
  /\ validation = NotCalled
  /\ formatCalls = << >>
  /\ calls = << >>
  /\ cli = NoCli

FormatterNext == FormatCall

FormatterSpec == FormatterInit /\ [][FormatterNext]_vars

---------------------------------------------------------------------------
(* Several createDigestIssue calls on one JobDigestService, none awaited   *)
(* before the next is started.  A call of the async function runs without  *)
(* interruption to its first await, the one of githubClient.createIssue,   *)
(* and its rest runs when the client has answered its request.             *)

\* the texts of the calls: one listing, two listings that sort reorders, and
\* a listing without title
ConcurrentSources ==
  { DigestOf(SummaryOf(Whole(1), Whole(1)), JobsOfShapes(<<"ok">>), ValidMetadata),
    DigestOf(SummaryOf(Whole(2), Whole(2)), JobsOfShapes(<<"ok", "score1">>), ValidMetadata),
    DigestOf(ValidSummary, JobsOfShapes(<<"noTitle">>), ValidMetadata) }

\* a call that takes the answer to the first request of the client for its own
RequestIndex_first(requests) == 1

\* the request a call awaits is the one it has just made: the client keeps
\* the requests in the order it received them
RequestIndex(requests) == Len(requests) + 1

\* the issue the client answers a request with: they are numbered from 1001
\* in the order the client received the requests
Answer(request) ==
  [number |-> 1000 + request,
   url |-> "https://github.com/test-org/job-search-repo/issues/" \o ToString(1000 + request)]

\* the locals of a call that threw before it called the client
Thrown(text, at, error) ==
  [text |-> text, pc |-> at, digest |-> Undef, request |-> 0,
   result |-> RejectedWith(catchBlock(error).thrown)]

ConcurrentInit ==
  /\ source = Undef
  /\ digestJson = << >>
  /\ pc = "concurrent"
  /\ digest = Undef
  /\ parseError = NoError
  /\ sortedJobs = << >>
  /\ issueContent = NoContent
  /\ formatError = NoError
  /\ wallClock \in Clock
  /\ logs = << >>
  /\ apiCalls = << >>
  /\ caught = NothingCaught
  /\ result = Pending
  /\ validation = NotCalled
  /\ formatCalls = << >>
  /\ calls = << >>
  /\ cli = NoCli

\* createDigestIssue is called on a text and runs to the await of
\* githubClient.createIssue, or to the throw of its catch block
StartCall ==
  /\ pc = "concurrent"
  /\ Len(calls) < MaxCalls
  /\ \E src \in ConcurrentSources :
       LET text == TextOf(src)
           r == parse(text)
       IN
       IF r.threw
         THEN LET error == ErrorObject("DigestProcessor.parse", r.message) IN
              /\ calls' = Append(calls, Thrown(text, "rejected", error))
              /\ logs' = logs \o StartingLogs(text) \o catchBlock(error).logs
              /\ apiCalls' = apiCalls
         ELSE \E sorted \in SortOutcomes(Get(r.value, "jobs").v) :
              LET f == format(r.value, sorted, wallClock)
                  error == ErrorObject("IssueFormatter.format", f.err)
                  after == digestAfterFormat(r.value, sorted)
              IN
              IF f.err # NoError
                THEN /\ calls' = Append(calls, Thrown(text, "formatThrew", error))
                     /\ logs' = logs \o StartingLogs(text)
                                  \o <<ProcessedLog(getSummaryStats(r.value))>>
                                  \o catchBlock(error).logs
                     /\ apiCalls' = apiCalls
                ELSE /\ calls' = Append(calls, [text |-> text, pc |-> "awaiting", digest |-> after,
                                                request |-> RequestIndex(apiCalls),
                                                result |-> Pending])
                     /\ logs' = logs \o StartingLogs(text)
                                  \o <<ProcessedLog(getSummaryStats(r.value))>>
                                  \o ContentLogs(f.content)
                     /\ apiCalls' = Append(apiCalls, CreateIssueParams(f.content, after))
  /\ UNCHANGED <<source, digestJson, pc, digest, parseError, sortedJobs, issueContent,
                 formatError, wallClock, caught, result, validation, formatCalls, cli>>

\* the client answers the request of one of the calls with its issue: the
\* call logs the two info messages and returns the issue
CallResolved ==
  /\ pc = "concurrent"
  /\ \E i \in DOMAIN calls :
       /\ calls[i].pc = "awaiting"
       /\ LET issue == Answer(calls[i].request) IN
          /\ calls' = [calls EXCEPT ![i].pc = "created", ![i].result = Fulfilled(issue)]
          /\ logs' = logs \o SuccessLogs(issue, getSummaryStats(calls[i].digest))
  /\ UNCHANGED <<source, digestJson, pc, digest, parseError, sortedJobs, issueContent,
                 formatError, wallClock, apiCalls, caught, result, validation, formatCalls,
                 cli>>

\* the client fails the request of one of the calls: its catch block
CallRejected ==
  /\ pc = "concurrent"
  /\ \E i \in DOMAIN calls :
       /\ calls[i].pc = "awaiting"
       /\ LET error == ErrorObject("GitHubClient.createIssue", "GitHub API: Network timeout") IN
          /\ calls' = [calls EXCEPT ![i].pc = "failed",
                                    ![i].result = RejectedWith(catchBlock(error).thrown)]
          /\ logs' = logs \o catchBlock(error).logs
  /\ UNCHANGED <<source, digestJson, pc, digest, parseError, sortedJobs, issueContent,
                 formatError, wallClock, apiCalls, caught, result, validation, formatCalls,
                 cli>>

ConcurrentNext == StartCall \/ CallResolved \/ CallRejected

ConcurrentSpec == ConcurrentInit /\ [][ConcurrentNext]_vars

---------------------------------------------------------------------------
(* The local CLI: main() of the test-local script.  The service it builds  *)
(* is the one above; its createDigestIssue call goes through Parse, Format, *)
(* CreateIssue and the answer of the client.                                *)

\* the built-in sample: two listings, one of them new
SampleDigest ==
  DigestOf(SummaryOf(Whole(2), Whole(1)), JobsOfShapes(<<"ok", "score1">>), ValidMetadata)

\* process.argv[2] and what readFileSync finds there: no argument, a file
\* that cannot be read, or a file with one of the contents
DigestFiles ==
  { [given |-> FALSE, readable |-> FALSE, content |-> Undef],
    [given |-> TRUE, readable |-> FALSE, content |-> Undef] }
  \cup { [given |-> TRUE, readable |-> TRUE, content |-> c] :
           c \in { DigestOf(SummaryOf(Whole(1), Whole(0)), JobsOfShapes(<<"ok">>), ValidMetadata),
                   DigestOf(SummaryOf(Whole(0), Whole(0)), JArr(<< >>), ValidMetadata),
                   DigestOf(ValidSummary, JobsOfShapes(<<"noTitle">>), ValidMetadata),
                   DigestOf(Without(ValidSummary, "processing_time_seconds"), JArr(<< >>),
                            ValidMetadata),
                   Malformed(<< >>),
                   Malformed(<<LBrace>>) } }

\* process.env.GITHUB_TOKEN: not set, empty, or a token
Tokens == {Undef, JStr(""), JStr("ghp_token")}

\* a digest text that is used whether the file could be read or not
DigestRead_contentAnyway(file) == file.content

\* the digest main reads: the file named on the command line, or the
\* built-in sample when none is named or the file cannot be read
DigestRead(file) ==
  IF file.given /\ file.readable THEN file.content ELSE SampleDigest

\* process.exit(code)
Exit(code) == [cli EXCEPT !.pc = "exited", !.exitCode = code]

MainInit ==
  /\ source = Undef
  /\ digestJson = << >>
  /\ pc = "idle"
  /\ digest = Undef
  /\ parseError = NoError
  /\ sortedJobs = << >>
  /\ issueContent = NoContent
  /\ formatError = NoError
  /\ wallClock = 0
  /\ logs = << >>
  /\ apiCalls = << >>
  /\ caught = NothingCaught
  /\ result = Pending
  /\ validation = NotCalled
  /\ formatCalls = << >>
  /\ calls = << >>
  /\ \E token \in Tokens, file \in DigestFiles :
       cli = [pc |-> "main", token |-> token, digestFile |-> file, exitCode |-> -1,
              validated |-> << >>, created |-> << >>]

\* if (!token) process.exit(1)
CheckToken ==
  /\ cli.pc = "main"
  /\ cli' = IF ~Truthy(cli.token) THEN Exit(1) ELSE [cli EXCEPT !.pc = "readDigest"]
  /\ UNCHANGED <<source, digestJson, pc, digest, parseError, sortedJobs, issueContent,
                 formatError, wallClock, logs, apiCalls, caught, result, validation,
                 formatCalls, calls>>

\* the digest text is read, the adapters and the service are set up
ReadDigest ==
  /\ cli.pc = "readDigest"
  /\ source' = DigestRead(cli.digestFile)
  /\ digestJson' = TextOf(source')
  /\ cli' = [cli EXCEPT !.pc = "validate"]
  /\ UNCHANGED <<pc, digest, parseError, sortedJobs, issueContent, formatError, wallClock,
                 logs, apiCalls, caught, result, validation, formatCalls, calls>>

\* await service.validateDigest(digestJson); if (!validation.valid) process.exit(1)
MainValidate ==
  /\ cli.pc = "validate"
  /\ validation' = validateDigest(digestJson)
  /\ cli' = IF Get(validation'.value, "valid") = JBool(TRUE)
              THEN [cli EXCEPT !.pc = "create", !.validated = Append(@, digestJson)]
              ELSE [Exit(1) EXCEPT !.validated = Append(@, digestJson)]
  /\ UNCHANGED <<source, digestJson, pc, digest, parseError, sortedJobs, issueContent,
                 formatError, wallClock, logs, apiCalls, caught, result, formatCalls, calls>>

\* service.createDigestIssue(digestJson) is called
MainCreate ==
  /\ cli.pc = "create"
  /\ pc = "idle"
  /\ pc' = "start"
  /\ cli' = [cli EXCEPT !.pc = "creating", !.created = Append(@, digestJson)]
  /\ UNCHANGED <<source, digestJson, digest, parseError, sortedJobs, issueContent,
                 formatError, wallClock, logs, apiCalls, caught, result, validation,
                 formatCalls, calls>>

\* the call has settled: the success messages and the end of main, or the
\* catch block with process.exit(1)
MainSettled ==
  /\ cli.pc = "creating"
  /\ result.state # "pending"
  /\ cli' = IF result.state = "fulfilled"
              THEN [cli EXCEPT !.pc = "done", !.exitCode = 0]
              ELSE Exit(1)
  /\ UNCHANGED <<source, digestJson, pc, digest, parseError, sortedJobs, issueContent,
                 formatError, wallClock, logs, apiCalls, caught, result, validation,
                 formatCalls, calls>>

MainNext ==
  \/ CheckToken \/ ReadDigest \/ MainValidate \/ MainCreate \/ MainSettled
  \/ Parse \/ Format \/ CreateIssue \/ IssueCreated \/ IssueFailed

MainSpec == MainInit /\ [][MainNext]_vars

---------------------------------------------------------------------------
(* The contract of parse, stated independently of validate: the checks in  *)
(* their documented order, each evaluated on its own                       *)

\* x.key where a value without properties simply lacks the property
Field(x, key) == IF CanRead(x) THEN Get(x, key) ELSE Undef

MissingOrNot(x, type) == ~Truthy(x) \/ TypeOf(x) # type

Check(bad, msg) == [bad |-> bad, msg |-> msg]

SummaryChecks(data) ==
  LET summary == Field(data, "summary") IN
  << Check(MissingOrNot(summary, "object"), "Missing or invalid summary object"),
     Check(TypeOf(Field(summary, "total_jobs_found")) # "number",
           "Missing or invalid total_jobs_found in summary"),
     Check(TypeOf(Field(summary, "new_jobs")) # "number",
           "Missing or invalid new_jobs in summary"),
     Check(~IsArray(Field(summary, "sources_queried")),
           "Missing or invalid sources_queried array in summary"),
     Check(~IsArray(Field(data, "jobs")), "Jobs data must be an array") >>

\* present but not a number in the closed interval [0, 1]
ScoreOutOfContract(job) ==
  /\ Has(job, "match_score")
  /\ ~(job.v["match_score"].t = "num"
       /\ job.v["match_score"].v >= 0 /\ job.v["match_score"].v <= 100)

\* the eight checks of the listing at 0-based index i
ListingChecks(job, i) ==
  [c \in 1..8 |->
     IF c <= 7
       THEN Check(MissingOrNot(Field(job, RequiredJobFields[c]), "string"),
                  "Job at index " \o ToString(i) \o ": missing or invalid "
                    \o RequiredJobFields[c] \o " field")
       ELSE Check(ScoreOutOfContract(job),
                  "Job at index " \o ToString(i)
                    \o ": match_score must be a number between 0 and 1")]

JobsOf(data) == IF IsArray(Field(data, "jobs")) THEN Field(data, "jobs").v ELSE << >>

JobsChecks(data) ==
  [c \in 1..(8 * Len(JobsOf(data))) |->
     ListingChecks(JobsOf(data)[((c - 1) \div 8) + 1], (c - 1) \div 8)[((c - 1) % 8) + 1]]

MetadataChecks(data) ==
  LET metadata == Field(data, "metadata") IN
  << Check(MissingOrNot(metadata, "object"), "Missing or invalid metadata object"),
     Check(MissingOrNot(Field(metadata, "generated_at"), "string"),
           "Missing or invalid generated_at in metadata") >>

Checks(data) == SummaryChecks(data) \o JobsChecks(data) \o MetadataChecks(data)

Violations(data) == {c \in DOMAIN Checks(data) : Checks(data)[c].bad}

FirstViolation(data) ==
  LET first == CHOOSE c \in Violations(data) : \A d \in Violations(data) : c <= d
  IN Checks(data)[first].msg

\* the listing has every required field
HasRequiredFields(job) ==
  \A c \in 1..7 : ~ListingChecks(job, 0)[c].bad

\* the listing passes all eight checks
ListingValid(job) == \A c \in 1..8 : ~ListingChecks(job, 0)[c].bad

SummaryAndJobsArrayValid(data) == \A c \in 1..5 : ~SummaryChecks(data)[c].bad

\* the value JSON.parse decoded from the text handed to parse
IsJSON == source.t # "text"
Decoded == JSONparse(digestJson).val

ParseDone == pc # "start"
Accepted == pc \notin {"start", "rejected"}
Rejected == pc = "rejected"

Prefix == "Invalid digest data: "

---------------------------------------------------------------------------
(* C1 - C5: DigestProcessor.parse *)

\* C1: whenever the decoded input violates one or more checks, parse raises
\* the message of the first violated check in the order summary object,
\* total_jobs_found, new_jobs, sources_queried, jobs array, each listing's
\* id, title, company, url, description, source, posted_date, match_score,
\* metadata object, generated_at.
C1_FirstViolationReported ==
  (ParseDone /\ IsJSON /\ Violations(Decoded) # {})
    => (Rejected /\ parseError = Prefix \o FirstViolation(Decoded))

\* C2: a jobs array holding at least one listing that fails a required-field
\* check or the match_score check is never accepted, wherever the listing
\* stands and however many valid listings surround it: parse raises and
\* returns no digest.
C2_AllOrNothing ==
  (ParseDone /\ IsJSON /\ \E n \in DOMAIN JobsOf(Decoded) : ~ListingValid(JobsOf(Decoded)[n]))
    => (Rejected /\ digest = Undef /\ parseError # NoError)

\* C2 witness: rejected because of the last of MaxJobs listings, the others,
\* the summary and the metadata being valid.
C2_Witness ==
  /\ Rejected /\ IsJSON
  /\ SummaryAndJobsArrayValid(Decoded)
  /\ Len(JobsOf(Decoded)) = MaxJobs
  /\ \A n \in 1..(MaxJobs - 1) : ListingValid(JobsOf(Decoded)[n])
  /\ ~ListingValid(JobsOf(Decoded)[MaxJobs])
  /\ \A c \in 1..2 : ~MetadataChecks(Decoded)[c].bad

\* the element at position n (0-based index n - 1) is the first one to fail,
\* and it fails on required field number c
FirstFailure(data, n, c) ==
  /\ SummaryAndJobsArrayValid(data)
  /\ n \in DOMAIN JobsOf(data)
  /\ \A m \in 1..(n - 1) : ListingValid(JobsOf(data)[m])
  /\ ListingChecks(JobsOf(data)[n], n - 1)[c].bad
  /\ \A b \in 1..(c - 1) : ~ListingChecks(JobsOf(data)[n], n - 1)[b].bad

\* C3: when parse rejects the digest because the element at index N, whatever
\* JSON value it is, lacks required field f or has the wrong type for it, the
\* message is 'Invalid digest data: Job at index N: missing or invalid f field'.
C3_MessageNamesIndexAndField ==
  \A n \in 1..MaxJobs : \A c \in 1..7 :
    (ParseDone /\ IsJSON /\ FirstFailure(Decoded, n, c))
      => (Rejected
          /\ parseError = Prefix \o "Job at index " \o ToString(n - 1)
               \o ": missing or invalid " \o RequiredJobFields[c] \o " field")

ScoreMessage(n) ==
  Prefix \o "Job at index " \o ToString(n - 1)
    \o ": match_score must be a number between 0 and 1"

\* C4: for a listing that has all required fields, parse raises the
\* match_score message for that listing exactly when its match_score is
\* present and is not a number in [0, 1]: the message is never raised for an
\* absent score or a score in [0, 1] (0 and 1 included), it is raised whenever
\* the listing is the first one to fail, and a digest whose every listing has
\* an absent or in-range score and which is otherwise valid is accepted.
C4_MatchScoreRange ==
  ParseDone /\ IsJSON =>
    /\ \A n \in DOMAIN JobsOf(Decoded) :
         HasRequiredFields(JobsOf(Decoded)[n]) =>
           /\ (Rejected /\ parseError = ScoreMessage(n))
                => ScoreOutOfContract(JobsOf(Decoded)[n])
           /\ FirstFailure(Decoded, n, 8)
                => (Rejected /\ parseError = ScoreMessage(n))
    /\ ( /\ CanRead(Decoded)
         /\ SummaryAndJobsArrayValid(Decoded)
         /\ \A n \in DOMAIN JobsOf(Decoded) :
              HasRequiredFields(JobsOf(Decoded)[n]) /\ ~ScoreOutOfContract(JobsOf(Decoded)[n])
         /\ \A c \in 1..2 : ~MetadataChecks(Decoded)[c].bad )
       => Accepted

\* C4 witness: the second listing is rejected for its score although the
\* first one carries the boundary score 1.
C4_Witness ==
  /\ Rejected /\ IsJSON
  /\ Len(JobsOf(Decoded)) >= 2
  /\ Field(JobsOf(Decoded)[1], "match_score") = JNum(100)
  /\ parseError = ScoreMessage(2)

\* the digest conforms to the validated shape
ValidDigest(d) == d.t # "text" /\ CanRead(d) /\ Violations(d) = {}

\* C5: for every valid digest d, parse(serialize(d)) returns and the value
\* returned equals d: every field unchanged, the jobs in their order, absent
\* optional fields still absent.
C5_RoundTrip ==
  (ParseDone /\ ValidDigest(source)) => (Accepted /\ (pc = "parsed" => digest = source))

\* C5 witness: a digest of MaxJobs listings, one with and one without a
\* match_score, came back from parse.
C5_Witness ==
  /\ pc = "parsed" /\ ValidDigest(source)
  /\ Len(JobsOf(source)) = MaxJobs
  /\ \E n \in 1..MaxJobs : Has(JobsOf(source)[n], "match_score")
  /\ \E n \in 1..MaxJobs : ~Has(JobsOf(source)[n], "match_score")

---------------------------------------------------------------------------
(* C6 - C10: IssueFormatter.format on the digest parse returned *)

FormatDone == pc \in {"formatted", "formatThrew"}

\* C6: for every raw text parse accepts, format on the returned digest
\* completes and returns a {title, body} pair without raising.
C6_FormatNeverRaises ==
  FormatDone => (pc = "formatted" /\ formatError = NoError /\ issueContent # NoContent)

WholeOf(x) == x.v \div 100

SourceTotal == WholeOf(Get(Get(source, "summary"), "total_jobs_found"))
SourceNew == WholeOf(Get(Get(source, "summary"), "new_jobs"))

\* the title table
TitleFor(total, new) ==
  CASE total = 0 -> ":mailbox_with_no_mail: No New Job Opportunities Today"
    [] total = 1 -> ":dart: 1 New Job Opportunity"
    [] total > 1 /\ new > 0 ->
         ":dart: " \o ToString(total) \o " Job Opportunities (" \o ToString(new) \o " new)"
    [] total > 1 /\ new = 0 -> ":dart: " \o ToString(total) \o " Job Opportunities"

InBody(piece) == \E i \in DOMAIN issueContent.body : issueContent.body[i] = piece

StartsWith(piece, prefix) ==
  Len(piece) >= Len(prefix) /\ SubSeq(piece, 1, Len(prefix)) = prefix

\* the listing headings of the body, in the order they stand in it
HeadingsOfBody == SelectSeq(issueContent.body, LAMBDA piece : StartsWith(piece, "### "))

\* C8: for a digest with an empty jobs array the body is the header, the
\* summary section and the empty-results section and nothing else: it holds
\* the 'No Jobs Found' heading with the four suggestions, and no listings
\* section, no listing, no next-steps section and no footer.
C8_EmptyJobsBody ==
  (pc = "formatted" /\ Len(JobsOf(source)) = 0) =>
    LET body == issueContent.body
        n == Len(body)
    IN
    /\ n >= 8
    /\ body[1] = Header(Get(source, "metadata"))
    /\ SubSeq(body, 2, n - 7) = formatSummarySection(Get(source, "summary")).out
    /\ SubSeq(body, n - 6, n) =
         << "## :mag: No Jobs Found\n\n",
            "No jobs matched your current search criteria today. Consider:\n\n",
            "- :arrows_counterclockwise: **Broadening search keywords** - try related terms or technologies\n",
            "- :round_pushpin: **Expanding location preferences** - include remote or nearby cities\n",
            "- :moneybag: **Adjusting salary expectations** - consider a wider range\n",
            "- :date: **Checking search date range** - extend to include older postings\n\n",
            "The system will continue monitoring and notify you when new opportunities are found.\n\n" >>
    /\ ~InBody(JobOpportunitiesHeading)
    /\ ~InBody(NextStepsHeading)
    /\ ~InBody(FooterRule)
    /\ ~InBody("</details>")
    /\ HeadingsOfBody = << >>

\* C8 witness: a body for an empty jobs array although the summary counts
\* three jobs, two of them new.
C8_Witness ==
  /\ pc = "formatted"
  /\ Len(JobsOf(source)) = 0
  /\ SourceTotal = 3 /\ SourceNew = 2
  /\ InBody(NoJobsFoundHeading)

\* date(a) >= date(b) on the time values; false when either is NaN
DateAtLeast(a, b) ==
  /\ ~PostedTime(a).nan /\ ~PostedTime(b).nan
  /\ PostedTime(a).ms >= PostedTime(b).ms

ScoreOrZero(job) == IF Has(job, "match_score") THEN job.v["match_score"].v ELSE 0

\* a then b may stand next to each other in the listings
InOrder(a, b) ==
  \/ ScoreOrZero(a) > ScoreOrZero(b)
  \/ (ScoreOrZero(a) = ScoreOrZero(b) /\ DateAtLeast(a, b))

IsReordering(s, r) ==
  /\ Len(s) = Len(r)
  /\ \E p \in [DOMAIN s -> DOMAIN s] :
       /\ \A i, j \in DOMAIN s : p[i] = p[j] => i = j
       /\ \A i \in DOMAIN s : s[i] = r[p[i]]

\* the body renders the listings of the digest, each once, in the order rendered
RendersInOrder(rendered) ==
  /\ IsReordering(rendered, JobsOf(source))
  /\ HeadingsOfBody = [i \in DOMAIN rendered |-> ListingHeading(rendered[i], i)]

ListingsDescending ==
  /\ RendersInOrder(sortedJobs)
  /\ \A i \in 1..(Len(sortedJobs) - 1) : InOrder(sortedJobs[i], sortedJobs[i + 1])

\* C9 as claimed: for every non-empty jobs list the listings stand in the
\* body in descending match_score order (missing counts as 0), equal scores
\* in descending posted_date order.
C9_SortedAsClaimed ==
  (pc = "formatted" /\ Len(JobsOf(source)) > 0) => ListingsDescending

AllDatesParse(jobs) == \A i \in DOMAIN jobs : ~PostedTime(jobs[i]).nan

\* C9 as amended: for every non-empty jobs list in which every posted_date
\* parses as a date, the listings stand in the body in descending
\* match_score order (missing counts as 0), equal scores in descending
\* posted_date order.
C9_SortedWhenDatesParse ==
  (pc = "formatted" /\ Len(JobsOf(source)) > 0 /\ AllDatesParse(JobsOf(source)))
    => ListingsDescending

\* C9 witness: MaxJobs listings with parseable dates, rendered in another
\* order than they came in, a listing without score tied with a listing of
\* score 0.
C9_Witness ==
  /\ pc = "formatted"
  /\ Len(JobsOf(source)) = MaxJobs
  /\ AllDatesParse(JobsOf(source))
  /\ sortedJobs # JobsOf(source)
  /\ \E i \in 1..(MaxJobs - 1) :
       /\ ~Has(sortedJobs[i + 1], "match_score")
       /\ Get(sortedJobs[i], "match_score") = JNum(0)

\* C10: after format(d) returns, d is as it was before the call: the same
\* listings in the same order, none with a field more or less.
C10_ArgumentUnchanged ==
  pc = "formatted" => digest = Decoded

---------------------------------------------------------------------------
(* C11 - C13: format called repeatedly, truncation, the posted phrase *)

\* C11: with the wall clock held fixed, every call of format on the same
\* digest object returns the same title and the same body (or throws the
\* same error) as every other call, the calls being made one after another
\* on the object the earlier calls have sorted.
C11_SameOutputEachCall ==
  \A i, j \in DOMAIN formatCalls :
    formatCalls[i].clock = formatCalls[j].clock =>
      /\ formatCalls[i].err = formatCalls[j].err
      /\ formatCalls[i].content = formatCalls[j].content

\* C11 witness: MaxFormatCalls calls that returned a body with listings, the
\* first of which reordered the jobs array of the object the later ones got.
C11_Witness ==
  /\ pc = "formatter"
  /\ Len(formatCalls) = MaxFormatCalls
  /\ \A i \in DOMAIN formatCalls : formatCalls[i].err = NoError
  /\ Len(JobsOf(source)) = MaxJobs
  /\ JobsOf(digest) # JobsOf(source)
  /\ InBody(JobOpportunitiesHeading)

\* the truncation rule: the text if it fits, otherwise a prefix and '...',
\* the prefix ending at the last space of the first max characters if the
\* 0-based index of that space is greater than 80% of max, and being the
\* first max characters otherwise
TruncatedByRule(text, max) ==
  LET spaces == {i \in 0..(max - 1) : SubSeq(text, i + 1, i + 1) = " "}
      last == CHOOSE i \in spaces : \A j \in spaces : j <= i
  IN IF Len(text) <= max THEN text
     ELSE IF spaces # {} /\ 10 * last > 8 * max THEN SubSeq(text, 1, last) \o "..."
     ELSE SubSeq(text, 1, max) \o "..."

EndsWith(text, suffix) ==
  Len(text) >= Len(suffix) /\ SubSeq(text, Len(text) - Len(suffix) + 1, Len(text)) = suffix

\* the index in the body of the heading of the listing rendered at position k
HeadingIndex(k) ==
  CHOOSE i \in DOMAIN issueContent.body :
    issueContent.body[i] = ListingHeading(sortedJobs[k], k)

\* the piece of the body that holds the description of the listing rendered
\* at position k: it follows the heading and the line of badges, if any
DescriptionPiece(k) ==
  issueContent.body[HeadingIndex(k) + (IF Badges(sortedJobs[k]) = << >> THEN 1 ELSE 2)]

\* the piece that follows the description
RequirementsPiece(k) ==
  issueContent.body[HeadingIndex(k) + (IF Badges(sortedJobs[k]) = << >> THEN 2 ELSE 3)]

\* the piece is pre, a text truncated by the rule to max, and a blank line
HoldsTruncated(piece, pre, text, max) ==
  LET shown == SubSeq(piece, Len(pre) + 1, Len(piece) - Len("\n\n")) IN
  /\ piece = pre \o TruncatedByRule(text, max) \o "\n\n"
  /\ Len(shown) <= max + 3
  /\ Len(text) <= max => shown = text
  /\ Len(text) > max => (EndsWith(shown, "...") /\ Len(shown) >= 3)

\* C12: a description is shown truncated to 300 characters and the
\* requirements to 200 by the rule: unchanged if the text fits, otherwise a
\* prefix followed by '...', the prefix ending at the last space of the
\* first max characters if that space lies beyond 80% of max and being the
\* first max characters otherwise; the result is never longer than max + 3
\* and ends in '...' when the text was too long.
C12_TruncatedByRule ==
  pc = "formatted" =>
    \A k \in DOMAIN sortedJobs :
      /\ HoldsTruncated(DescriptionPiece(k), "", Get(sortedJobs[k], "description").v, 300)
      /\ Truthy(Get(sortedJobs[k], "requirements")) =>
            HoldsTruncated(RequirementsPiece(k), "**Requirements:** ",
                           Get(sortedJobs[k], "requirements").v, 200)

\* C12 witness: a description of 500 characters with its last space at
\* index 250 was cut back to that space.
C12_Witness ==
  /\ pc = "formatted"
  /\ \E k \in DOMAIN sortedJobs :
       /\ Len(Get(sortedJobs[k], "description").v) = 500
       /\ Len(DescriptionPiece(k)) = 250 + 3 + Len("\n\n")
       /\ Truthy(Get(sortedJobs[k], "requirements"))

\* the whole days from the posted date to now: D with D days <= now - posted < D + 1 days
WholeDaysSince(posted, now) ==
  CHOOSE D \in -20..20 : D * DayMs <= now - posted /\ now - posted < (D + 1) * DayMs

\* the index at which the pieces of the listing rendered at position k end
ListingEnd(k) ==
  IF k < Len(sortedJobs) THEN HeadingIndex(k + 1) ELSE Len(issueContent.body) + 1

\* the 'Posted:' piece of the listing rendered at position k
PostedPiece(k) ==
  issueContent.body[CHOOSE i \in (HeadingIndex(k) + 1)..(ListingEnd(k) - 1) :
                      StartsWith(issueContent.body[i], "**Posted:** ")]

Posted(phrase) == "**Posted:** " \o phrase \o "\n\n"

---------------------------------------------------------------------------
(* C14 - C17: JobDigestService.createDigestIssue *)

ErrorLogs == SelectSeq(logs, LAMBDA l : l.level = "error")

Contains(text, part) ==
  \E i \in 1..(Len(text) - Len(part) + 1) : SubSeq(text, i, i + Len(part) - 1) = part

\* the labels the counts of the digest call for
LabelsFor(total, new) ==
  <<"job-digest", "automated", "jobs-" \o ToString(total)>>
  \o (IF new > 0 THEN <<"new-jobs">> ELSE << >>)
  \o (IF total = 0 THEN <<"no-results">> ELSE << >>)

\* C14: the labels passed to createIssue are 'job-digest', 'automated',
\* 'jobs-{total_jobs_found}', then 'new-jobs' if and only if new_jobs > 0,
\* then 'no-results' if and only if total_jobs_found = 0, and no other.
C14_Labels ==
  \A i \in DOMAIN apiCalls : apiCalls[i].labels = LabelsFor(SourceTotal, SourceNew)

\* C14 witness: a call for a digest that counts no job but two new ones
\* carries both conditional labels.
C14_Witness ==
  /\ Len(apiCalls) = 1
  /\ SourceTotal = 0 /\ SourceNew = 2
  /\ apiCalls[1].labels = <<"job-digest", "automated", "jobs-0", "new-jobs", "no-results">>

\* C15: when parse fails inside createDigestIssue, one error-level message
\* is logged, createIssue is never called, nothing is tried again, and the
\* call rejects with the very Error object parse threw.
C15_ParseFailureRethrown ==
  pc = "rejected" =>
    /\ Len(ErrorLogs) = 1
    /\ ErrorLogs[1].message = "Failed to create digest issue: " \o parseError
    /\ apiCalls = << >>
    /\ Len(SelectSeq(logs, LAMBDA l : l.message = "Starting digest issue creation...")) = 1
    /\ formatCalls = << >>
    /\ caught = ErrorObject("DigestProcessor.parse", parseError)
    /\ result = RejectedWith(caught)

\* C15 witness: the call was rejected for the third listing of the text.
C15_Witness ==
  /\ pc = "rejected"
  /\ result.state = "rejected"
  /\ result.value.text = "Invalid digest data: Job at index 2: missing or invalid title field"
  /\ Len(logs) = 3

\* C16: when the client fails, createDigestIssue rejects with the value the
\* client failed with; by the time the rejection is there, one error-level
\* message has been logged, which holds the message of the error; the
\* success messages are not logged and createIssue was called once.
C16_ClientFailureRethrown ==
  /\ pc = "failed" =>
       /\ caught \in ClientFailures
       /\ result = RejectedWith(caught)
       /\ Len(apiCalls) = 1
       /\ caught.instanceofError => Contains(ErrorLogs[1].message, caught.text)
       /\ \A i \in DOMAIN logs :
            /\ ~Contains(logs[i].message, "Created issue")
            /\ ~Contains(logs[i].message, "Summary:")
  /\ result.state = "rejected" => Len(ErrorLogs) = 1
  /\ result.state # "rejected" => ErrorLogs = << >>

\* C16 witness: the call was rejected with the client's timeout error after
\* a digest with listings had been formatted.
C16_Witness ==
  /\ pc = "failed"
  /\ result = RejectedWith(ErrorObject("GitHubClient.createIssue", "GitHub API: Network timeout"))
  /\ Len(JobsOf(source)) = 2
  /\ Len(apiCalls) = 1

\* the digest has the shape of the data model: it passes the checks of
\* parse, its processing time is a number, requirements are a string and
\* match_reasons an array where present
WellFormed(d) ==
  /\ ValidDigest(d)
  /\ Field(Field(d, "summary"), "processing_time_seconds").t = "num"
  /\ \A n \in DOMAIN JobsOf(d) :
       /\ Field(JobsOf(d)[n], "requirements").t \in {"undefined", "str"}
       /\ Field(JobsOf(d)[n], "match_reasons").t \in {"undefined", "arr"}

---------------------------------------------------------------------------
(* C18 - C20: JobDigestService.validateDigest *)

\* C18: validateDigest never rejects; when parse fails on the text it
\* resolves to { valid: false, error } with a message and no summary, and
\* otherwise to { valid: true, summary } with totalJobs, newJobs, sources
\* and avgMatchScore and no error.
C18_ValidateDigestResolves ==
  validation # NotCalled =>
    /\ validation.state = "fulfilled"
    /\ validation.value.t = "obj"
    /\ IF ~IsJSON \/ ~ValidDigest(Decoded)
         THEN /\ DOMAIN validation.value.v = {"valid", "error"}
              /\ Get(validation.value, "valid") = JBool(FALSE)
              /\ Get(validation.value, "error").t = "str"
              /\ Len(Get(validation.value, "error").v) > 0
         ELSE /\ DOMAIN validation.value.v = {"valid", "summary"}
              /\ Get(validation.value, "valid") = JBool(TRUE)
              /\ DOMAIN Get(validation.value, "summary").v
                   = {"totalJobs", "newJobs", "sources", "avgMatchScore"}
              /\ Get(Get(validation.value, "summary"), "totalJobs")
                   = Field(Field(Decoded, "summary"), "total_jobs_found")
              /\ Get(Get(validation.value, "summary"), "newJobs")
                   = Field(Field(Decoded, "summary"), "new_jobs")
              /\ Get(Get(validation.value, "summary"), "sources")
                   = Field(Field(Decoded, "summary"), "sources_queried")
              /\ Get(Get(validation.value, "summary"), "avgMatchScore").t = "num"

\* C18 witness: validateDigest resolved to a failure for the empty text.
C18_Witness ==
  /\ digestJson = << >>
  /\ validation.state = "fulfilled"
  /\ Get(validation.value, "valid") = JBool(FALSE)

\* C19: a validateDigest call leaves the client and the logger alone: it
\* adds no createIssue call and no log message.
C19_ValidateDigestIsQuiet ==
  [][ValidateDigest => (apiCalls' = apiCalls /\ logs' = logs)]_vars

\* C19 witness: validateDigest was called and an issue was created, and the
\* logger holds the seven messages of createDigestIssue and the client its
\* one call.
C19_Witness ==
  /\ validation # NotCalled
  /\ pc = "created"
  /\ Len(logs) = 7
  /\ Len(apiCalls) = 1

\* C20: for a text parse refuses, the error of the validateDigest result is
\* the message of the error createDigestIssue rejects with.
C20_SameMessage ==
  (pc = "rejected" /\ validation # NotCalled) =>
    /\ result.state = "rejected"
    /\ result.value.instanceofError
    /\ validation.state = "fulfilled"
    /\ Get(validation.value, "error") = JStr(result.value.text)

\* C20 witness: both calls name the third listing of the text.
C20_Witness ==
  /\ pc = "rejected"
  /\ validation # NotCalled
  /\ Get(validation.value, "error")
       = JStr("Invalid digest data: Job at index 2: missing or invalid title field")
  /\ result.value.text = "Invalid digest data: Job at index 2: missing or invalid title field"

---------------------------------------------------------------------------
(* C22: DigestProcessor.getSummaryStats *)

\* the listings of the text that carry a number as match_score
ScoredListings ==
  {n \in DOMAIN JobsOf(Decoded) : Field(JobsOf(Decoded)[n], "match_score").t = "num"}

RECURSIVE ScoreTotal(_)
ScoreTotal(listings) ==
  IF listings = {} THEN 0
  ELSE LET n == CHOOSE n \in listings : TRUE
       IN Field(JobsOf(Decoded)[n], "match_score").v + ScoreTotal(listings \ {n})

\* r hundredths is the mean of the scores rounded to two decimals (a mean
\* half way between two hundredths may go to either), or 0 without scores
MeanRounded(r) ==
  LET count == Cardinality(ScoredListings)
      total == ScoreTotal(ScoredListings)
  IN IF count = 0 THEN r = 0
     ELSE 2 * count * r - count <= 2 * total /\ 2 * total <= 2 * count * r + count

\* C22: on a parsed digest getSummaryStats returns totalJobs =
\* summary.total_jobs_found, newJobs = summary.new_jobs, sources =
\* summary.sources_queried and avgMatchScore = the mean, rounded to two
\* decimals, of the scores of the listings that carry a number (0 counts,
\* a listing without score does not), or 0 when there is none.
C22_SummaryStats ==
  (validation # NotCalled /\ IsJSON /\ ValidDigest(Decoded)) =>
    /\ Get(validation.value, "valid") = JBool(TRUE)
    /\ LET summary == Get(validation.value, "summary") IN
       /\ Get(summary, "totalJobs") = Get(Get(Decoded, "summary"), "total_jobs_found")
       /\ Get(summary, "newJobs") = Get(Get(Decoded, "summary"), "new_jobs")
       /\ Get(summary, "sources") = Get(Get(Decoded, "summary"), "sources_queried")
       /\ Get(summary, "avgMatchScore").t = "num"
       /\ MeanRounded(Get(summary, "avgMatchScore").v)

\* C22 witness: of three listings one has no score, one the score 0 and
\* one the score 1; the average is 0.5.
C22_Witness ==
  /\ validation # NotCalled
  /\ IsJSON /\ ValidDigest(Decoded)
  /\ Len(JobsOf(Decoded)) = 3
  /\ ScoredListings = {2, 3}
  /\ Field(JobsOf(Decoded)[2], "match_score") = JNum(0)
  /\ Get(Get(validation.value, "summary"), "avgMatchScore") = JNum(50)

---------------------------------------------------------------------------
(* C23 - C25: the listings and the summary section *)

\* the indices of the body whose piece starts with the prefix
IndicesOf(prefix) ==
  {i \in DOMAIN issueContent.body : StartsWith(issueContent.body[i], prefix)}

\* the indices of the body that belong to the listing rendered at position
\* k: from its heading to the separator, or to the end of the section
ListingSpan(k) ==
  HeadingIndex(k)..(IF k < Len(sortedJobs) THEN HeadingIndex(k + 1) - 2
                    ELSE (CHOOSE i \in DOMAIN issueContent.body :
                            issueContent.body[i] = NextStepsHeading) - 2)

ShowsBadge(job, key) ==
  LET x == Field(job, key) IN
  /\ x.t \in {"str", "bool", "num"}
  /\ x # JStr("") /\ x # JBool(FALSE) /\ x # JNum(0)

BadgeText(job, key) ==
  CASE key = "location" -> ":round_pushpin: " \o Get(job, key).v
    [] key = "salary" -> ":moneybag: " \o Get(job, key).v
    [] key = "job_type" -> ":alarm_clock: " \o Get(job, key).v
    [] key = "experience_level" -> ":man_office_worker: " \o Get(job, key).v
    [] key = "remote_option" -> ":house: Remote Available"
    [] key = "match_score" -> ":dart: " \o ToString(Get(job, key).v) \o "% match"

BadgeOrder ==
  <<"location", "salary", "job_type", "experience_level", "remote_option", "match_score">>

\* the badges of the line from position i of the order on, joined
RECURSIVE BadgeLineFrom(_, _, _)
BadgeLineFrom(job, i, first) ==
  IF i > Len(BadgeOrder) THEN ""
  ELSE IF ShowsBadge(job, BadgeOrder[i])
    THEN (IF first THEN "" ELSE " &bull; ") \o BadgeText(job, BadgeOrder[i])
         \o BadgeLineFrom(job, i + 1, FALSE)
  ELSE BadgeLineFrom(job, i + 1, first)

\* C24: the metadata line of a listing holds the badges of the fields that
\* are there, in the order location, salary, job_type, experience_level,
\* Remote Available, match percentage; without any badge there is no line;
\* the match badge shows round(match_score * 100)% and is there iff
\* match_score is there and is not 0, so that a listing with match_score 0
\* is rendered as the same listing without match_score.
C24_MetadataLine ==
  pc = "formatted" =>
    \A k \in DOMAIN sortedJobs :
      LET job == sortedJobs[k]
          body == issueContent.body
          line == body[HeadingIndex(k) + 1]
          last == CHOOSE i \in ListingSpan(k) : \A j \in ListingSpan(k) : j <= i
      IN
      /\ IF \E i \in DOMAIN BadgeOrder : ShowsBadge(job, BadgeOrder[i])
           THEN line = BadgeLineFrom(job, 1, TRUE) \o "\n\n"
           ELSE /\ line = truncateDescription(Get(job, "description"), 300).out[1] \o "\n\n"
                /\ \A i \in ListingSpan(k) : ~Contains(body[i], " &bull; ")
      /\ (\E i \in ListingSpan(k) : Contains(body[i], "% match"))
           <=> (Field(job, "match_score").t = "num" /\ Field(job, "match_score") # JNum(0))
      /\ Field(job, "match_score") = JNum(0) =>
           SubSeq(body, HeadingIndex(k), last)
             = formatJobListing(Without(job, "match_score"), k, wallClock).out

\* C24 witness: a listing with a location, a job type and a score of 0.87
\* and neither salary nor level has the three badges in that order.
C24_Witness ==
  /\ pc = "formatted"
  /\ Len(sortedJobs) = 1
  /\ issueContent.body[HeadingIndex(1) + 1]
       = ":round_pushpin: Remote &bull; :alarm_clock: full-time &bull; :dart: 87% match\n\n"

SummaryHeadingIndex ==
  CHOOSE i \in DOMAIN issueContent.body : issueContent.body[i] = "## :bar_chart: Summary\n\n"

\* the number of hundredths written with two decimals
TwoDecimals(v) ==
  ToString(v \div 100) \o "." \o ToString((v % 100) \div 10) \o ToString(v % 10)

\* C25: in the summary section the total-jobs line has the suffix
\* '(N new since last run)' iff new_jobs > 0, the 'Duplicates Removed' line
\* is there iff duplicates_removed > 0, and the sources line and the
\* processing-time line, with two decimals and the unit s, are always there.
C25_SummarySection ==
  pc = "formatted" =>
    LET body == issueContent.body
        summary == Field(Decoded, "summary")
        new == Field(summary, "new_jobs")
        removed == Field(summary, "duplicates_removed")
        i == SummaryHeadingIndex
    IN
    /\ Cardinality(IndicesOf("## :bar_chart: Summary")) = 1
    /\ body[i + 1] = "- **Total Jobs:** " \o NumToString(Field(summary, "total_jobs_found").v)
    /\ IF new.v > 0
         THEN /\ body[i + 2] = " (" \o NumToString(new.v) \o " new since last run)"
              /\ Cardinality({j \in DOMAIN body : Contains(body[j], "new since last run")}) = 1
         ELSE \A j \in DOMAIN body : ~Contains(body[j], "new since last run")
    /\ LET j == IF new.v > 0 THEN i + 3 ELSE i + 2 IN
       /\ StartsWith(body[j], "\n- **Sources:** ")
       /\ Cardinality(IndicesOf("\n- **Sources:** ")) = 1
       /\ body[j + 1] = "\n- **Processing Time:** "
                          \o TwoDecimals(Field(summary, "processing_time_seconds").v) \o "s"
       /\ Cardinality(IndicesOf("\n- **Processing Time:** ")) = 1
       /\ IF removed.t = "num" /\ removed.v > 0
            THEN /\ body[j + 2] = "\n- **Duplicates Removed:** " \o NumToString(removed.v)
                 /\ body[j + 3] = "\n\n"
                 /\ Cardinality(IndicesOf("\n- **Duplicates Removed:** ")) = 1
            ELSE /\ body[j + 2] = "\n\n"
                 /\ \A m \in DOMAIN body : ~Contains(body[m], "Duplicates Removed")

\* C25 witness: a summary of two new jobs and twelve duplicates has both
\* the suffix and the duplicates line.
C25_Witness ==
  /\ pc = "formatted"
  /\ issueContent.body[SummaryHeadingIndex + 1] = "- **Total Jobs:** 3"
  /\ issueContent.body[SummaryHeadingIndex + 2] = " (2 new since last run)"
  /\ issueContent.body[SummaryHeadingIndex + 4] = "\n- **Processing Time:** 2.50s"
  /\ issueContent.body[SummaryHeadingIndex + 5] = "\n- **Duplicates Removed:** 12"

---------------------------------------------------------------------------
(* C26: the order of the log messages of createDigestIssue *)

\* message i of the log has the level and starts with the text
LogIs(i, level, start) ==
  /\ i \in DOMAIN logs
  /\ logs[i].level = level
  /\ StartsWith(logs[i].message, start)

---------------------------------------------------------------------------
(* C27: the count of days in the 'Posted:' line *)

\* C27: whatever the posted_date and the current time, a posted date in
\* the future included, the 'Posted:' line says '{N} days ago' only with N
\* from 2 to 6: never with 0, a negative N or N >= 7.
C27_DaysAgoFromTwoToSix ==
  pc = "formatted" =>
    \A k \in DOMAIN sortedJobs :
      EndsWith(PostedPiece(k), " days ago\n\n") =>
        \E N \in 2..6 : PostedPiece(k) = Posted(ToString(N) \o " days ago")

---------------------------------------------------------------------------
(* C28 - C29: the two calls of the service, and the signs of an empty digest *)

\* C28: validateDigest and createDigestIssue agree on every text:
\* validateDigest returns valid: true iff createDigestIssue on that text
\* gets as far as calling createIssue.
C28_ValidateAgreesWithCreate ==
  validation # NotCalled =>
    /\ pc \in {"awaiting", "created", "failed"}
         => Get(validation.value, "valid") = JBool(TRUE)
    /\ pc \in {"rejected", "formatThrew"}
         => Get(validation.value, "valid") = JBool(FALSE)

\* C29: for every digest parse accepts, the three signs of 'no results' of
\* a created issue agree: the label 'no-results' is attached iff the title
\* is the 'No New Job Opportunities Today' one iff the body has the 'No
\* Jobs Found' section.
C29_NoResultsSignalsAgree ==
  \A i \in DOMAIN apiCalls :
    LET labelled == \E l \in DOMAIN apiCalls[i].labels : apiCalls[i].labels[l] = "no-results"
        titled == apiCalls[i].title = ":mailbox_with_no_mail: No New Job Opportunities Today"
        sectioned == \E j \in DOMAIN apiCalls[i].body : apiCalls[i].body[j] = NoJobsFoundHeading
    IN (labelled <=> titled) /\ (titled <=> sectioned)

---------------------------------------------------------------------------
(* C21: createDigestIssue calls that overlap *)

\* the calls started before call i (i included) whose text parse accepts and
\* format renders
RequestsUpTo(i) ==
  {j \in 1..i :
     LET r == parse(calls[j].text) IN
     /\ ~r.threw
     /\ format(r.value, CHOOSE sorted \in SortOutcomes(JobsOf(r.value)) : TRUE, wallClock).err
          = NoError}

\* the title, body and labels that come of the text alone
RequestFor(text) ==
  LET d == JSONparse(text).val
      content == format(d, CHOOSE sorted \in SortOutcomes(JobsOf(d)) : TRUE, wallClock).content
  IN [title |-> content.title, body |-> content.body,
      labels |-> LabelsFor(WholeOf(Get(Get(d, "summary"), "total_jobs_found")),
                           WholeOf(Get(Get(d, "summary"), "new_jobs")))]

CallsIsolated ==
  /\ Len(apiCalls) = Cardinality(RequestsUpTo(Len(calls)))
  /\ \A i \in DOMAIN calls :
       IF i \in RequestsUpTo(i)
         THEN LET k == Cardinality(RequestsUpTo(i)) IN
              /\ calls[i].pc \in {"awaiting", "created", "failed"}
              /\ apiCalls[k] = RequestFor(calls[i].text)
              /\ calls[i].pc = "awaiting" => calls[i].result = Pending
              /\ calls[i].pc = "created" =>
                   calls[i].result
                     = Fulfilled([number |-> 1000 + k,
                                  url |-> "https://github.com/test-org/job-search-repo/issues/"
                                            \o ToString(1000 + k)])
              /\ calls[i].pc = "failed" =>
                   \E error \in ClientFailures : calls[i].result = RejectedWith(error)
         ELSE /\ calls[i].pc = "rejected"
              /\ calls[i].result.state = "rejected"

\* C21: for createDigestIssue calls started on one service without waiting
\* for one another, and every order of the client's answers, the client
\* gets one createIssue request per call, with the title, body and labels
\* that come of the text of that call alone, in the order the calls were
\* started, and each caller gets the answer to its own request; a step of
\* one call changes nothing of another.
C21_CallsIsolated ==
  /\ []CallsIsolated
  /\ [][\A i \in DOMAIN calls :
          calls'[i] # calls[i] => \A j \in DOMAIN calls \ {i} : calls'[j] = calls[j]]_vars

\* C21 witness: the second of two calls was answered while the first still
\* waits; the second caller has issue 1002, the answer to the second request.
C21_Witness ==
  /\ Len(calls) = 2
  /\ Len(apiCalls) = 2
  /\ calls[1].pc = "awaiting"
  /\ calls[2].pc = "created"
  /\ calls[2].result.value.number = 1002
  /\ apiCalls[1].title = ":dart: 2 Job Opportunities (2 new)"
  /\ apiCalls[2].title = ":dart: 1 New Job Opportunity"

---------------------------------------------------------------------------
(* C30: main of the local CLI *)

\* C30: main calls createDigestIssue at most once, and only after it found
\* GITHUB_TOKEN and validateDigest returned valid: true for the same text;
\* without token, or with a digest that does not validate, the process
\* exits with code 1 and no createDigestIssue call; when the file named
\* cannot be read, the built-in sample is used and main goes on.
C30_MainCallsOnceAfterValidation ==
  /\ Len(cli.created) <= 1
  /\ pc # "idle" => Len(cli.created) = 1
  /\ Len(cli.created) = 1 =>
       /\ Truthy(cli.token)
       /\ cli.validated = cli.created
       /\ Get(validateDigest(cli.created[1]).value, "valid") = JBool(TRUE)
       /\ Get(validation.value, "valid") = JBool(TRUE)
  /\ ~Truthy(cli.token) =>
       /\ cli.pc \in {"main", "exited"}
       /\ cli.pc = "exited" => cli.exitCode = 1
       /\ cli.created = << >> /\ validation = NotCalled
  /\ (validation # NotCalled /\ Get(validation.value, "valid") = JBool(FALSE)) =>
       /\ cli.pc = "exited" /\ cli.exitCode = 1
       /\ cli.created = << >> /\ pc = "idle" /\ apiCalls = << >>
  /\ (Truthy(cli.token) /\ cli.pc # "main" /\ cli.pc # "readDigest"
        /\ ~(cli.digestFile.given /\ cli.digestFile.readable)) =>
       /\ digestJson = TextOf(SampleDigest)
       /\ cli.pc \in {"validate", "create", "creating", "done", "exited"}
       /\ cli.pc = "exited" => result.state = "rejected"
  /\ cli.pc = "done" => (cli.exitCode = 0 /\ result.state = "fulfilled")

\* C30 witness: the file named could not be read, the sample was validated
\* and one issue created from it.
C30_Witness ==
  /\ cli.pc = "done"
  /\ cli.digestFile.given /\ ~cli.digestFile.readable
  /\ cli.created = <<TextOf(SampleDigest)>>
  /\ Len(apiCalls) = 1
  /\ apiCalls[1].title = ":dart: 2 Job Opportunities (1 new)"

====
